---- MODULE Spec2Model ----
(***************************************************************************)
(* Train-schedule page generator (make_html.py, hub.py).                   *)
(*                                                                         *)
(* The module holds several specifications over one set of variables:      *)
(*   SpecMeta      meta.json and MetaManager                               *)
(*   SpecFetch     the api_cache directory and fetch_train_data            *)
(*   SpecStation   the destination loop of process_station                 *)
(*   SpecDuration  calculate_duration and the inline per-card duration     *)
(*   SpecRoutes    find_fastest_route / find_cheapest_route                *)
(*   SpecPanel     one date panel of generate_multi_date_html              *)
(*   SpecHub       create_hub_page of hub.py and the meta.json it shares   *)
(*                 with MetaManager                                        *)
(*   SpecRun       one run of process_multi_date_route: the fetch loop,    *)
(*                 the page with its tabs, meta.json and the page write    *)
(*   SpecMain      main of make_html.py: the choice of the stations, the   *)
(*                 cleanup of the output folder and the station loop       *)
(*                 (FairSpecMain: the same with its steps taken)           *)
(*   SpecAverage   the daily average of a route page                       *)
(*   SpecFirstLast first and last train of the intro and the statistics    *)
(*   SpecLinks     the links of a hub page and the route file names        *)
(* A specification leaves the variables of the other parts at their idle   *)
(* values.                                                                 *)
(*                                                                         *)
(* Python strings are sequences of one-character strings, so that          *)
(* formatting, slicing, int() and the regular expression of parse_duration *)
(* are computed and not assumed.                                           *)
(***************************************************************************)
EXTENDS Integers, Sequences, FiniteSets, TLC

VARIABLES
    \* ---- meta.json / MetaManager
    metaFile,        \* meta.json on disk
    meta_data,       \* MetaManager.meta_data of the live instance
    now,             \* datetime.now(), in seconds of the ISO stamp
    metaHist,        \* history of the calls made (for the claims only)
    \* ---- api_cache / fetch_train_data
    cache,           \* api_cache/<key>.json for every cache key
    clock,           \* time.time(), in hours
    lastFetch,       \* the last fetch_train_data call and what it did
    \* ---- process_station
    arrival_list,    \* route_data["도착지"]
    station_ids,     \* the destinations that have an entry in station_ids
    idx,             \* position of the for loop (1-based)
    generated_count, \* process_station's counter
    pcStation,       \* "loop" | "done"
    outcomes,        \* per destination handled so far: what happened
    written,         \* route pages present in the output folder
    \* ---- pure functions
    dep_time, arr_time, durOut,       \* calculate_duration
    schedule_data, routeOut,          \* find_fastest_route / find_cheapest_route
    date_trains, panelOut,            \* one date panel
    \* ---- hub.py
    hubFiles,        \* the hub pages in the output folder, by file name
    outdir,          \* the output folder exists
    hubHist,         \* history of the runs made (for the claims only)
    \* ---- process_multi_date_route
    run,             \* the run in progress: dates, fetched lists, counters
    routeFile,       \* the route page in the output folder
    \* ---- make_html.py main
    main,            \* the run of main: configuration, loop position, counter
    folder,          \* the names of the files in the output folder
    \* ---- parts of one route page and of one hub page
    avgStat,         \* the daily-average figure
    firstLast,       \* first and last train of the intro and of the statistics
    hubLink          \* hub links and the route file names they point at

metaVars    == <<metaFile, meta_data, now, metaHist>>
fetchVars   == <<cache, clock, lastFetch>>
stationVars == <<arrival_list, station_ids, idx, generated_count, pcStation, outcomes, written>>
durVars     == <<dep_time, arr_time, durOut>>
routeVars   == <<schedule_data, routeOut>>
panelVars   == <<date_trains, panelOut>>
hubVars     == <<hubFiles, outdir, hubHist>>
runVars     == <<run, routeFile>>
mainVars    == <<main, folder>>
pageVars    == <<avgStat, firstLast, hubLink>>
vars == <<metaVars, fetchVars, stationVars, durVars, routeVars, panelVars,
          hubVars, runVars, mainVars, pageVars>>

\* what an action of one part leaves alone
notMeta    == <<fetchVars, stationVars, durVars, routeVars, panelVars, hubVars, runVars,
               mainVars, pageVars>>
notFetch   == <<metaVars, stationVars, durVars, routeVars, panelVars, hubVars, runVars,
               mainVars, pageVars>>
notStation == <<metaVars, fetchVars, durVars, routeVars, panelVars, hubVars, runVars,
               mainVars, pageVars>>
notDur     == <<metaVars, fetchVars, stationVars, routeVars, panelVars, hubVars, runVars,
               mainVars, pageVars>>
notRoutes  == <<metaVars, fetchVars, stationVars, durVars, panelVars, hubVars, runVars,
               mainVars, pageVars>>
notPanel   == <<metaVars, fetchVars, stationVars, durVars, routeVars, hubVars, runVars,
               mainVars, pageVars>>
\* what the hub runs and the route runs leave alone (both use meta.json)
notHub     == <<fetchVars, stationVars, durVars, routeVars, panelVars, runVars,
               mainVars, pageVars>>
notRun     == <<fetchVars, stationVars, durVars, routeVars, panelVars, hubVars,
               mainVars, pageVars>>
notMain    == <<metaVars, fetchVars, stationVars, durVars, routeVars, panelVars, hubVars,
               runVars, pageVars>>
notPage    == <<metaVars, fetchVars, stationVars, durVars, routeVars, panelVars, hubVars,
               runVars, mainVars>>

(***************************************************************************)
(* Bounds                                                                  *)
(***************************************************************************)
MaxTime      == 3    \* last value of now
MaxCalls     == 4    \* get_or_create_page_dates calls in one behaviour
MaxInstances == 3    \* MetaManager constructions in one behaviour

Pages == {"/a", "/b"}

(***************************************************************************)
(* meta.json and MetaManager                                               *)
(***************************************************************************)
\* A page URL that is no key of "pages". Dates are values of now, >= 1.
\* "title" and "created_by" are written once and never read back: left out.
NoPage == [published_date |-> 0, modified_date |-> 0, version |-> 0]

EmptyPages == [p \in Pages |-> NoPage]

\* Station names are sequences of syllables; Yeok is the syllable 역.
Yeok == "yeok"
Seoul   == <<"seo", "ul">>
Busan   == <<"bu", "san">>
Daegu   == <<"dae", "gu">>
Daejeon == <<"dae", "jeon">>

\* s if s.endswith("역") else s + "역"
with_station(s) ==
    IF Len(s) > 0 /\ s[Len(s)] = Yeok THEN s ELSE Append(s, Yeok)

\* s.replace("역", "")
replace_yeok(s) == SelectSeq(s, LAMBDA c : c # Yeok)

\* 열차시간표
Timetable == <<"yeol", "cha", "si", "gan", "pyo">>

\* f"{from_station_with_station}에서-출발하는-열차시간표": the hub page's file
\* name (use_html_extension keeps its default, False) and its meta.json key
base_filename(from_with) ==
    from_with \o <<"e", "seo", "-", "chul", "bal", "ha", "neun", "-">> \o Timetable

\* the values of "출발역" in the input files
Origins == {Seoul, Append(Seoul, Yeok)}
HubKeys == {base_filename(with_station(o)) : o \in Origins}

\* A url slug that is no top-level key of meta.json. "created" and "modified"
\* are days, the _iso fields are values of now. "last_build", "timezone",
\* "route", "filename" and "url_slug" are written and never read back: left out.
NoHub == [created |-> 0, created_iso |-> 0, modified |-> 0, modified_iso |-> 0,
          total_destinations |-> 0, build_count |-> 0, status |-> "none"]
NoHubs == [k \in HubKeys |-> NoHub]

\* meta.json: no file, a file json.load rejects, or a JSON object that may
\* lack the "pages" key (hub.py writes such a file). "hubs" are the other
\* top-level keys of the object: the entries hub.py stores, by url slug.
AbsentFile  == [kind |-> "absent",  has_pages |-> FALSE, pages |-> EmptyPages,
                hubs |-> NoHubs]
CorruptFile == [kind |-> "corrupt", has_pages |-> FALSE, pages |-> EmptyPages,
                hubs |-> NoHubs]
JsonFile(has, pages) == [kind |-> "json", has_pages |-> has, pages |-> pages,
                         hubs |-> NoHubs]

NoInstance == [live |-> FALSE, has_pages |-> FALSE, pages |-> EmptyPages,
               hubs |-> NoHubs]

\* MetaManager.load_meta
load_meta(file) ==
    IF file.kind = "json"
    THEN [live |-> TRUE, has_pages |-> TRUE,
          pages |-> IF file.has_pages THEN file.pages ELSE EmptyPages,
          hubs |-> file.hubs]
    ELSE [live |-> TRUE, has_pages |-> TRUE, pages |-> EmptyPages,
          hubs |-> NoHubs]

\* MetaManager.get_or_create_page_dates, up to the save: the new meta_data
get_or_create_NoBump(md, page_url, iso_date) ==
    LET pages == IF md.has_pages THEN md.pages ELSE EmptyPages
        entry == IF pages[page_url] # NoPage
                 THEN [pages[page_url] EXCEPT !.modified_date = iso_date]
                 ELSE [published_date |-> iso_date, modified_date |-> iso_date,
                       version |-> 1]
    IN  [md EXCEPT !.has_pages = TRUE, !.pages = [pages EXCEPT ![page_url] = entry]]

get_or_create_Republish(md, page_url, iso_date) ==
    LET pages == IF md.has_pages THEN md.pages ELSE EmptyPages
        entry == IF pages[page_url] # NoPage
                 THEN [published_date |-> iso_date, modified_date |-> iso_date,
                       version |-> pages[page_url].version + 1]
                 ELSE [published_date |-> iso_date, modified_date |-> iso_date,
                       version |-> 1]
    IN  [md EXCEPT !.has_pages = TRUE, !.pages = [pages EXCEPT ![page_url] = entry]]

get_or_create_page_dates(md, page_url, iso_date) ==
    LET pages == IF md.has_pages THEN md.pages ELSE EmptyPages
        entry == IF pages[page_url] # NoPage
                 THEN [pages[page_url] EXCEPT !.modified_date = iso_date,
                                              !.version = @ + 1]
                 ELSE [published_date |-> iso_date, modified_date |-> iso_date,
                       version |-> 1]
    IN  [md EXCEPT !.has_pages = TRUE, !.pages = [pages EXCEPT ![page_url] = entry]]

save_meta_PagesOnly(md, file, ok) ==
    IF ok
    THEN JsonFile(TRUE, IF md.has_pages THEN md.pages ELSE EmptyPages)
    ELSE file

\* MetaManager.save_meta: the file after the call. ok = FALSE is makedirs or
\* open raising, which the except clause logs; the file stays as it was.
save_meta(md, file, ok) ==
    IF ok
    THEN [JsonFile(TRUE, IF md.has_pages THEN md.pages ELSE EmptyPages)
            EXCEPT !.hubs = md.hubs]
    ELSE file

InitMetaHist ==
    [first          |-> [p \in Pages |-> 0],   \* published_date first saved
     first_instance |-> [p \in Pages |-> 0],   \* instance that saved it
     calls          |-> [p \in Pages |-> 0],   \* calls made for the page
     last           |-> [p \in Pages |-> 0],   \* now at the last call
     last_instance  |-> [p \in Pages |-> 0],   \* instance of the last call
     instances      |-> 0,                     \* MetaManager() constructions
     all_saved      |-> TRUE]                  \* no save_meta has failed

IdleMeta ==
    /\ metaFile = AbsentFile
    /\ meta_data = NoInstance
    /\ now = 1
    /\ metaHist = InitMetaHist

InitMeta ==
    /\ metaFile \in {AbsentFile, CorruptFile,
                     JsonFile(FALSE, EmptyPages), JsonFile(TRUE, EmptyPages)}
    /\ meta_data = NoInstance
    /\ now = 1
    /\ metaHist = InitMetaHist

TotalCalls == metaHist.calls["/a"] + metaHist.calls["/b"]

\* MetaManager(): __init__ loads the file
NewMetaManager ==
    /\ metaHist.instances < MaxInstances
    /\ meta_data' = load_meta(metaFile)
    /\ metaHist' = [metaHist EXCEPT !.instances = @ + 1]
    /\ UNCHANGED <<metaFile, now, notMeta>>

\* one get_or_create_page_dates(page_url) call on the live instance,
\* its save_meta included
GetOrCreatePageDates(page_url, ok) ==
    /\ meta_data.live
    /\ TotalCalls < MaxCalls
    /\ LET md   == get_or_create_page_dates(meta_data, page_url, now)
           file == save_meta(md, metaFile, ok)
           new  == ok /\ metaHist.first[page_url] = 0
       IN  /\ meta_data' = md
           /\ metaFile' = file
           /\ metaHist' =
                [metaHist EXCEPT
                   !.calls[page_url] = @ + 1,
                   !.last[page_url] = now,
                   !.last_instance[page_url] = metaHist.instances,
                   !.first[page_url] =
                       IF new THEN file.pages[page_url].published_date ELSE @,
                   !.first_instance[page_url] =
                       IF new THEN metaHist.instances ELSE @,
                   !.all_saved = @ /\ ok]
    /\ UNCHANGED <<now, notMeta>>

TickNow ==
    /\ now < MaxTime
    /\ now' = now + 1
    /\ UNCHANGED <<metaFile, meta_data, metaHist, notMeta>>

(***************************************************************************)
(* api_cache and fetch_train_data                                          *)
(***************************************************************************)
MaxClock == 8    \* last value of clock, in hours

CacheKeys == {"k1", "k2"}      \* f"{from_id}_{to_id}_{date_str}"

\* train_data lists the API can answer with (the records themselves are
\* modelled in the pure-function part; here only the list's identity counts).
\* json.dump followed by json.load gives back a list of dicts of str/None
\* unchanged, so a cache file that parses holds the list that was written.
ApiLists == {<<>>, <<"t1">>, <<"t1", "t2">>}

\* what the HTTP request and the XML parse come to
ApiOutcomes == {"request_exception", "bad_xml", "result_code", "ok"}

NoCacheFile == [exists |-> FALSE, mtime |-> 0, parses |-> FALSE, data |-> <<>>]
CacheFile(t, data) == [exists |-> TRUE, mtime |-> t, parses |-> TRUE, data |-> data]
BadCacheFile(t) == [exists |-> TRUE, mtime |-> t, parses |-> FALSE, data |-> <<>>]

\* the threshold of line 418, in seconds
CacheMaxAge == 6 * 3600

\* time.time() - st_mtime, in seconds (clock and mtime are in hours)
file_age(file, t) == (t - file.mtime) * 3600

\* lines 416-423: the cache file is used
cache_hit_AtMost(file, t) ==
    /\ file.exists
    /\ file_age(file, t) <= CacheMaxAge
    /\ file.parses

cache_hit(file, t) ==
    /\ file.exists
    /\ file_age(file, t) < CacheMaxAge
    /\ file.parses

\* lines 437-468: the request, the parse and the cache write.
\* [returned, file, raised]: the return value, the cache file afterwards
\* and whether an exception leaves the function (the except clause of
\* line 466 catches every Exception of the try block).
api_call_Store(file, t, api, resp, write_ok) ==
    IF api # "ok"
    THEN [returned |-> <<>>, file |-> CacheFile(t, <<>>), raised |-> FALSE]
    ELSE IF write_ok
         THEN [returned |-> resp, file |-> CacheFile(t, resp), raised |-> FALSE]
         ELSE [returned |-> <<>>, file |-> file, raised |-> FALSE]

api_call(file, t, api, resp, write_ok) ==
    IF api \in {"request_exception", "bad_xml"}
    THEN [returned |-> <<>>, file |-> file, raised |-> FALSE]   \* except Exception
    ELSE IF api = "result_code"
    THEN [returned |-> <<>>, file |-> file, raised |-> FALSE]   \* resultCode != "00"
    ELSE IF write_ok
         THEN [returned |-> resp, file |-> CacheFile(t, resp), raised |-> FALSE]
         ELSE [returned |-> <<>>, file |-> file, raised |-> FALSE]  \* the write raised: except

\* TrainScheduleGenerator.fetch_train_data
fetch_train_data(file, t, api, resp, write_ok) ==
    IF cache_hit(file, t)
    THEN [returned |-> file.data, http |-> FALSE, file |-> file, raised |-> FALSE]
    ELSE LET r == api_call(file, t, api, resp, write_ok)
         IN  [returned |-> r.returned, http |-> TRUE, file |-> r.file,
              raised |-> r.raised]

NoFetch ==
    [called |-> FALSE, key |-> "k1", before |-> NoCacheFile, api |-> "none",
     resp |-> <<>>, write_ok |-> TRUE, returned |-> <<>>, http |-> FALSE,
     raised |-> FALSE]

IdleFetch ==
    /\ cache = [k \in CacheKeys |-> NoCacheFile]
    /\ clock = 0
    /\ lastFetch = NoFetch

InitFetch ==
    /\ cache \in [CacheKeys -> {NoCacheFile, BadCacheFile(0), CacheFile(0, <<"t1">>)}]
    /\ clock = 0
    /\ lastFetch = NoFetch

\* one fetch_train_data call
FetchTrainData(key, api, resp, write_ok) ==
    LET r == fetch_train_data(cache[key], clock, api, resp, write_ok)
    IN  /\ cache' = [cache EXCEPT ![key] = r.file]
        /\ lastFetch' =
             [called |-> TRUE, key |-> key, before |-> cache[key],
              api |-> IF r.http THEN api ELSE "none",
              resp |-> IF r.http /\ api = "ok" THEN resp ELSE <<>>,
              write_ok |-> IF r.http /\ api = "ok" THEN write_ok ELSE TRUE,
              returned |-> r.returned, http |-> r.http, raised |-> r.raised]
        /\ UNCHANGED <<clock, notFetch>>

\* an hour passes between two calls
TickClock ==
    /\ clock < MaxClock
    /\ clock' = clock + 1
    /\ lastFetch' = NoFetch
    /\ UNCHANGED <<cache, notFetch>>

(***************************************************************************)
(* process_station: the loop over the destinations of one origin station   *)
(***************************************************************************)
MaxDests == 3    \* longest "도착지" list

Dests == {"d1", "d2", "d3"}

RECURSIVE SeqsUpTo(_, _)
SeqsUpTo(S, n) ==
    IF n = 0 THEN {<<>>}
    ELSE LET shorter == SeqsUpTo(S, n - 1)
         IN  shorter \cup {Append(q, x) : q \in {r \in shorter : Len(r) = n - 1}, x \in S}

\* What one process_multi_date_route call meets:
\*   any_valid_date  some requested date returned at least one train
\*   any_combined    some returned train has both a departure and an arrival time
\*   html            generate_multi_date_html returns the page or raises
\*                   (a train_type of None, a time that int() rejects, a
\*                   meta.json that cannot be opened)
\*   write_ok        makedirs/open/write of the page succeed
RouteInputs ==
    [any_valid_date : BOOLEAN, any_combined : BOOLEAN,
     html : {"ok", "raises"}, write_ok : BOOLEAN]

\* TrainScheduleGenerator.process_multi_date_route: what the caller sees
process_multi_date_route(in) ==
    IF ~in.any_valid_date THEN "False_no_data"              \* line 1232
    ELSE IF ~in.any_combined THEN "False_no_data"           \* line 1258
    ELSE IF in.html = "raises" THEN "raised"                \* lines 1285-1288
    ELSE IF in.write_ok THEN "True"                         \* line 1300
    ELSE "False_write"                                      \* line 1303

\* lines 1343-1357 of process_station: the counter after one route and
\* whether the loop goes on
after_route_StopOnError(result, count) ==
    [generated_count |-> IF result = "True" THEN count + 1 ELSE count,
     go_on |-> result \notin {"raised", "False_write"}]

after_route(result, count) ==
    [generated_count |-> IF result = "True" THEN count + 1 ELSE count,
     go_on |-> TRUE]

IdleStation ==
    /\ arrival_list = <<>>
    /\ station_ids = {}
    /\ idx = 1
    /\ generated_count = 0
    /\ pcStation = "idle"
    /\ outcomes = <<>>
    /\ written = {}

InitStation ==
    /\ arrival_list \in SeqsUpTo(Dests, MaxDests)
    /\ station_ids \in SUBSET Dests
    /\ idx = 1
    /\ generated_count = 0
    /\ pcStation = "start"
    /\ outcomes = <<>>
    /\ written = {}

\* lines 1313-1332: the station has an ID and its destination file exists
\* and parses, or process_station returns 0 / lets json.load's error out
StartStation(start) ==
    /\ pcStation = "start"
    /\ pcStation' = CASE start = "ready"    -> "loop"
                      [] start = "no_id"    -> "returned_0"
                      [] start = "no_file"  -> "returned_0"
                      [] start = "bad_json" -> "raised"
    /\ UNCHANGED <<arrival_list, station_ids, idx, generated_count, outcomes, written, notStation>>

\* lines 1334-1340: a destination without a station ID is passed over
SkipDestination ==
    /\ pcStation = "loop"
    /\ idx <= Len(arrival_list)
    /\ arrival_list[idx] \notin station_ids
    /\ outcomes' = Append(outcomes, "skipped")
    /\ idx' = idx + 1
    /\ UNCHANGED <<arrival_list, station_ids, generated_count, pcStation, written, notStation>>

\* lines 1341-1359: one destination with a station ID
ProcessDestination(in) ==
    /\ pcStation = "loop"
    /\ idx <= Len(arrival_list)
    /\ arrival_list[idx] \in station_ids
    /\ LET result == process_multi_date_route(in)
           after  == after_route(result, generated_count)
       IN  /\ outcomes' = Append(outcomes, result)
           /\ generated_count' = after.generated_count
           /\ written' = IF result = "True"
                         THEN written \cup {arrival_list[idx]} ELSE written
           /\ IF after.go_on
              THEN idx' = idx + 1 /\ pcStation' = pcStation
              ELSE idx' = idx /\ pcStation' = "raised"
    /\ UNCHANGED <<arrival_list, station_ids, notStation>>

\* lines 1361-1362: the list is exhausted
ReturnCount ==
    /\ pcStation = "loop"
    /\ idx > Len(arrival_list)
    /\ pcStation' = "done"
    /\ UNCHANGED <<arrival_list, station_ids, idx, generated_count, outcomes, written, notStation>>

(***************************************************************************)
(* Python strings                                                          *)
(*                                                                         *)
(* A str is a sequence of characters; a Hangul syllable is one character,  *)
(* written here by its romanisation: "si" "gan" is 시간, "bun" is 분,      *)
(* "sae" "ma" "eul" is 새마을, "ma" "eum" is 마음, "mu" "gung" "hwa" "ho"  *)
(* is 무궁화호, "nu" "ri" "ro" is 누리로, "san" "cheon" is 산천.           *)
(***************************************************************************)
Digits == <<"0", "1", "2", "3", "4", "5", "6", "7", "8", "9">>

IsDigit(c) == \E d \in 1..10 : Digits[d] = c

DigitVal(c) == (CHOOSE d \in 1..10 : Digits[d] = c) - 1

RECURSIVE IntOfDigits(_)
IntOfDigits(s) ==
    IF s = <<>> THEN 0
    ELSE IntOfDigits(SubSeq(s, 1, Len(s) - 1)) * 10 + DigitVal(s[Len(s)])

\* str(n) / f"{n}" for n >= 0
RECURSIVE StrOfNat(_)
StrOfNat(n) ==
    IF n < 10 THEN <<Digits[n + 1]>>
    ELSE StrOfNat(n \div 10) \o <<Digits[(n % 10) + 1]>>

\* s[a:b] for 0 <= a <= b
Slice(s, a, b) == SubSeq(s, a + 1, IF b < Len(s) THEN b ELSE Len(s))

\* s[a:]
SliceFrom(s, a) == SubSeq(s, a + 1, Len(s))

\* sub in s
Contains(sub, s) ==
    \E i \in 1..(Len(s) - Len(sub) + 1) : SubSeq(s, i, i + Len(sub) - 1) = sub

RECURSIVE StripLeft(_)
StripLeft(s) == IF s # <<>> /\ s[1] = " " THEN StripLeft(Tail(s)) ELSE s

RECURSIVE StripRight(_)
StripRight(s) ==
    IF s # <<>> /\ s[Len(s)] = " " THEN StripRight(SubSeq(s, 1, Len(s) - 1)) ELSE s

\* int(s) for a str: [ok, val]; ok = FALSE is ValueError. Surrounding
\* whitespace and one sign are accepted, then decimal digits only.
py_int(s) ==
    LET t    == StripRight(StripLeft(s))
        sign == t # <<>> /\ t[1] \in {"+", "-"}
        body == IF sign THEN Tail(t) ELSE t
    IN  IF body # <<>> /\ \A i \in 1..Len(body) : IsDigit(body[i])
        THEN [ok |-> TRUE,
              val |-> IF sign /\ t[1] = "-" THEN 0 - IntOfDigits(body)
                      ELSE IntOfDigits(body)]
        ELSE [ok |-> FALSE, val |-> 0]

\* A value found under a dict key: the key is absent, the value is None,
\* or it is a str.
Missing == [k |-> "missing", s |-> <<>>]
None    == [k |-> "none", s |-> <<>>]
Str(s)  == [k |-> "str", s |-> s]

\* not v, for a value that is None or a str ('' and None are falsy)
Falsy(v) == v.k # "str" \/ v.s = <<>>

(***************************************************************************)
(* calculate_duration and the inline duration of generate_multi_date_html  *)
(***************************************************************************)
MinuteEdge == 3   \* minutes 0..MinuteEdge-1 and 60-MinuteEdge..59 are drawn

MinuteSamples == (0..(MinuteEdge - 1)) \cup ((60 - MinuteEdge)..59)

\* f"{n:02d}"
Pad2(n) == IF n < 10 THEN <<"0">> \o StrOfNat(n) ELSE StrOfNat(n)

\* the HHMM strings of the valid times of day that are drawn
ValidHHMM == {Pad2(h) \o Pad2(m) : h \in 0..23, m \in MinuteSamples}

\* f"{duration//60}시간 {duration%60}분"
duration_text(duration) ==
    StrOfNat(duration \div 60) \o <<"si", "gan", " ">>
        \o StrOfNat(duration % 60) \o <<"bun">>

\* TrainScheduleIntroGenerator.calculate_duration
calculate_duration_NoWrap(dep, arr) ==
    LET dep_h == py_int(Slice(dep, 0, 2)).val
        dep_m == py_int(SliceFrom(dep, 2)).val
        arr_h == py_int(Slice(arr, 0, 2)).val
        arr_m == py_int(SliceFrom(arr, 2)).val
        d     == (arr_h * 60 + arr_m) - (dep_h * 60 + dep_m)
        duration == IF d <= 0 THEN d + 1440 ELSE d
    IN  duration_text(duration)

calculate_duration(dep, arr) ==
    LET dep_h == py_int(Slice(dep, 0, 2)).val
        dep_m == py_int(SliceFrom(dep, 2)).val
        arr_h == py_int(Slice(arr, 0, 2)).val
        arr_m == py_int(SliceFrom(arr, 2)).val
        d     == (arr_h * 60 + arr_m) - (dep_h * 60 + dep_m)
        duration == IF d < 0 THEN d + 1440 ELSE d
    IN  duration_text(duration)

\* generate_multi_date_html, lines 622-627 and 639
inline_duration(dep, arr) ==
    LET dep_h == py_int(Slice(dep, 0, 2)).val
        dep_m == py_int(SliceFrom(dep, 2)).val
        arr_h == py_int(Slice(arr, 0, 2)).val
        arr_m == py_int(SliceFrom(arr, 2)).val
        d     == (arr_h * 60 + arr_m) - (dep_h * 60 + dep_m)
        duration == IF d < 0 THEN d + 1440 ELSE d
    IN  duration_text(duration)

NoDuration == [called |-> FALSE, method |-> <<>>, inline |-> <<>>]

IdleDuration ==
    /\ dep_time = <<>>
    /\ arr_time = <<>>
    /\ durOut = NoDuration

InitDuration ==
    /\ dep_time \in ValidHHMM
    /\ arr_time \in ValidHHMM
    /\ durOut = NoDuration

\* both computations on the same departure and arrival
CalculateDuration ==
    /\ ~durOut.called
    /\ durOut' = [called |-> TRUE,
                  method |-> calculate_duration(dep_time, arr_time),
                  inline |-> inline_duration(dep_time, arr_time)]
    /\ UNCHANGED <<dep_time, arr_time, notDur>>

(***************************************************************************)
(* Train records                                                           *)
(***************************************************************************)
MaxTrains == 3   \* longest train list

\* a train dict; 'duration' is the key generate_intro adds
Train(dep, arr, type, number, charge, dur) ==
    [departure_time |-> dep, arrival_time |-> arr, train_type |-> type,
     train_number |-> number, adult_charge |-> charge, duration |-> dur]

\* "YYYYMMDDHHMMSS" of the API for 2 January 2025
PlandTime(hhmm) == Str(<<"2", "0", "2", "5", "0", "1", "0", "2">> \o hhmm \o <<"0", "0">>)

T0830 == PlandTime(<<"0", "8", "3", "0">>)
T1115 == PlandTime(<<"1", "1", "1", "5">>)

(***************************************************************************)
(* parse_duration, find_fastest_route, find_cheapest_route                 *)
(***************************************************************************)
RECURSIVE DigitRunEnd(_, _)
\* the last index of the run of digits that starts at i (i - 1: no digit)
DigitRunEnd(s, i) ==
    IF i <= Len(s) /\ IsDigit(s[i]) THEN DigitRunEnd(s, i + 1) ELSE i - 1

RECURSIVE SpaceRunEnd(_, _)
SpaceRunEnd(s, i) ==
    IF i <= Len(s) /\ s[i] = " " THEN SpaceRunEnd(s, i + 1) ELSE i - 1

\* (\d+)시간\s*(\d+)분 matched with its first character at i. Each \d+ is
\* followed by a non-digit, so only the whole run of digits can match.
DurationMatchAt(s, i) ==
    LET he == DigitRunEnd(s, i)
        ms == SpaceRunEnd(s, he + 3) + 1
        me == DigitRunEnd(s, ms)
    IN  IF /\ he >= i
           /\ he + 2 <= Len(s)
           /\ s[he + 1] = "si"
           /\ s[he + 2] = "gan"
           /\ me >= ms
           /\ me + 1 <= Len(s)
           /\ s[me + 1] = "bun"
        THEN [ok |-> TRUE,
              hours |-> IntOfDigits(SubSeq(s, i, he)),
              minutes |-> IntOfDigits(SubSeq(s, ms, me))]
        ELSE [ok |-> FALSE, hours |-> 0, minutes |-> 0]

\* re.search: the leftmost position with a match
DurationSearch(s) ==
    LET hits == {i \in 1..Len(s) : DurationMatchAt(s, i).ok}
    IN  IF hits = {} THEN [ok |-> FALSE, hours |-> 0, minutes |-> 0]
        ELSE DurationMatchAt(s, CHOOSE i \in hits : \A j \in hits : i <= j)

\* TrainScheduleIntroGenerator.parse_duration on train.get('duration', '')
parse_duration(v) ==
    IF Falsy(v) THEN 0
    ELSE LET m == DurationSearch(v.s)
         IN  IF m.ok THEN m.hours * 60 + m.minutes ELSE 0

\* The loop of find_fastest_route from train i on: fastest is the index of
\* the train held so far (0: None), shortest_time its minutes (-1: inf).
RECURSIVE fastest_loop_LastWins(_, _, _, _)
fastest_loop_LastWins(data, i, fastest, shortest_time) ==
    IF i > Len(data) THEN fastest
    ELSE LET duration == parse_duration(data[i].duration)
         IN  IF duration > 0 /\ (shortest_time = -1 \/ duration <= shortest_time)
             THEN fastest_loop_LastWins(data, i + 1, i, duration)
             ELSE fastest_loop_LastWins(data, i + 1, fastest, shortest_time)

RECURSIVE fastest_loop(_, _, _, _)
fastest_loop(data, i, fastest, shortest_time) ==
    IF i > Len(data) THEN fastest
    ELSE LET duration == parse_duration(data[i].duration)
         IN  IF duration > 0 /\ (shortest_time = -1 \/ duration < shortest_time)
             THEN fastest_loop(data, i + 1, i, duration)
             ELSE fastest_loop(data, i + 1, fastest, shortest_time)

\* TrainScheduleIntroGenerator.find_fastest_route: the index of the train
\* returned, 0 for None
find_fastest_route(data) == fastest_loop(data, 1, 0, -1)

\* int(train.get('adult_charge', 0)): [ok, val]; ok = FALSE is the
\* TypeError of int(None) or the ValueError of int(str)
charge_int(v) ==
    IF v.k = "missing" THEN [ok |-> TRUE, val |-> 0]
    ELSE IF v.k = "none" THEN [ok |-> FALSE, val |-> 0]
    ELSE py_int(v.s)

RECURSIVE cheapest_loop_NoPositive(_, _, _, _)
cheapest_loop_NoPositive(data, i, cheapest, lowest_price) ==
    IF i > Len(data) THEN cheapest
    ELSE LET price == charge_int(data[i].adult_charge)
         IN  IF price.ok /\ (lowest_price = -1 \/ price.val < lowest_price)
             THEN cheapest_loop_NoPositive(data, i + 1, i, price.val)
             ELSE cheapest_loop_NoPositive(data, i + 1, cheapest, lowest_price)

RECURSIVE cheapest_loop(_, _, _, _)
cheapest_loop(data, i, cheapest, lowest_price) ==
    IF i > Len(data) THEN cheapest
    ELSE LET price == charge_int(data[i].adult_charge)
         IN  IF price.ok /\ price.val > 0
                /\ (lowest_price = -1 \/ price.val < lowest_price)
             THEN cheapest_loop(data, i + 1, i, price.val)
             ELSE cheapest_loop(data, i + 1, cheapest, lowest_price)

\* TrainScheduleIntroGenerator.find_cheapest_route: the index of the train
\* returned, 0 for None
find_cheapest_route(data) ==
    LET cheapest == cheapest_loop(data, 1, 0, -1)
    IN  IF cheapest = 0 /\ data # <<>> THEN 1 ELSE cheapest

\* trains whose durations and fares cover: equal shortest durations, equal
\* lowest fares, a 0-minute duration, a text the pattern does not match, no
\* 'duration' key, None, a fare of 0, a negative fare, a fare int() rejects

RouteTrains ==
    { Train(T0830, T1115, Str(<<"K", "T", "X">>), Str(<<"1">>),
            Str(<<"8", "4", "0", "0">>),
            Str(<<"1", "si", "gan", " ", "5", "bun">>)),
      Train(T0830, T1115, Str(<<"S", "R", "T">>), Str(<<"2">>),
            Str(<<"4", "8", "0", "0">>),
            Str(<<"1", "si", "gan", " ", "5", "bun">>)),
      Train(T0830, T1115, Str(<<"mu", "gung", "hwa", "ho">>), Str(<<"3">>),
            Str(<<" ", "4", "8", "0", "0">>),
            Str(<<"1", "0", "si", "gan", "0", "bun">>)),
      Train(T0830, T0830, Str(<<"K", "T", "X">>), Str(<<"4">>),
            Str(<<"0">>),
            Str(<<"0", "si", "gan", " ", "0", "bun">>)),
      Train(T0830, T1115, Str(<<"I", "T", "X">>), Str(<<"5">>),
            Missing, Missing),
      Train(T0830, T1115, Str(<<"nu", "ri", "ro">>), Str(<<"6">>),
            None, Str(<<"4", "5", "bun">>)),
      Train(T0830, T1115, Str(<<"K", "T", "X">>), Str(<<"7">>),
            Str(<<"-", "1", "0", "0">>),
            Str(<<"0", "si", "gan", " ", "4", "5", "bun">>)),
      Train(T0830, T1115, Str(<<"S", "R", "T">>), Str(<<"8">>),
            Str(<<"4", ",", "8", "0", "0">>), None) }

NoRoute == [fn |-> "none", index |-> 0]

IdleRoutes ==
    /\ schedule_data = <<>>
    /\ routeOut = NoRoute

InitRoutes ==
    /\ schedule_data \in SeqsUpTo(RouteTrains, MaxTrains)
    /\ routeOut = NoRoute

FindFastestRoute ==
    /\ routeOut.fn = "none"
    /\ routeOut' = [fn |-> "fastest", index |-> find_fastest_route(schedule_data)]
    /\ UNCHANGED <<schedule_data, notRoutes>>

FindCheapestRoute ==
    /\ routeOut.fn = "none"
    /\ routeOut' = [fn |-> "cheapest", index |-> find_cheapest_route(schedule_data)]
    /\ UNCHANGED <<schedule_data, notRoutes>>

(***************************************************************************)
(* One date panel of generate_multi_date_html (lines 606-703)              *)
(***************************************************************************)
KTX      == <<"K", "T", "X">>
SRT      == <<"S", "R", "T">>
ITX      == <<"I", "T", "X">>
Saemaeul == <<"sae", "ma", "eul">>
Maeum    == <<"ma", "eum">>
Mugunghwa == <<"mu", "gung", "hwa">>

\* lines 614-616: the train gets a card only with both times
has_times(train) == ~Falsy(train.departure_time) /\ ~Falsy(train.arrival_time)

\* lines 618-627 and 645: what raises while the card is built (int() of a
\* slice that is no number, "KTX" in None)
card_raises(train) ==
    LET dep == Slice(train.departure_time.s, 8, 12)
        arr == Slice(train.arrival_time.s, 8, 12)
    IN  \/ ~py_int(Slice(dep, 0, 2)).ok
        \/ ~py_int(SliceFrom(dep, 2)).ok
        \/ ~py_int(Slice(arr, 0, 2)).ok
        \/ ~py_int(SliceFrom(arr, 2)).ok
        \/ train.train_type.k # "str"

\* the rules of lines 645-652 with the last one tried before the third
train_group_MugunghwaFirst(train_type) ==
    IF Contains(KTX, train_type) THEN "KTX"
    ELSE IF Contains(SRT, train_type) THEN "SRT"
    ELSE IF Contains(Mugunghwa, train_type) THEN "MUGUNGHWA"
    ELSE IF \/ Contains(Saemaeul, train_type)
            \/ Contains(ITX, train_type)
            \/ Contains(Maeum, train_type) THEN "ITX"
    ELSE "none"

\* lines 644-652: the group of a train type, "none" when no rule matches
train_group(train_type) ==
    IF Contains(KTX, train_type) THEN "KTX"
    ELSE IF Contains(SRT, train_type) THEN "SRT"
    ELSE IF \/ Contains(Saemaeul, train_type)
            \/ Contains(ITX, train_type)
            \/ Contains(Maeum, train_type) THEN "ITX"
    ELSE IF Contains(Mugunghwa, train_type) THEN "MUGUNGHWA"
    ELSE "none"

\* lines 629-642: the train_info of a card; price 0 stands for "요금 확인 필요"
train_info(train) ==
    LET dep == Slice(train.departure_time.s, 8, 12)
        arr == Slice(train.arrival_time.s, 8, 12)
        p   == IF Falsy(train.adult_charge) THEN [ok |-> TRUE, val |-> 0]
               ELSE py_int(train.adult_charge.s)
    IN  [type |-> train.train_type.s, dep_time |-> dep, arr_time |-> arr,
         duration |-> inline_duration(dep, arr),
         price |-> IF p.ok /\ p.val > 0 THEN p.val ELSE 0,
         number |-> train.train_number]

\* train_groups[g]: the cards of group g, in the order of date_trains
RECURSIVE group_cards(_, _, _)
group_cards(trains, g, i) ==
    IF i > Len(trains) THEN <<>>
    ELSE IF has_times(trains[i]) /\ train_group(trains[i].train_type.s) = g
         THEN <<train_info(trains[i])>> \o group_cards(trains, g, i + 1)
         ELSE group_cards(trains, g, i + 1)

\* the panel of one date: the cards in render order and the header count
date_panel(trains) ==
    IF \E i \in 1..Len(trains) : has_times(trains[i]) /\ card_raises(trains[i])
    THEN [called |-> TRUE, raised |-> TRUE, header_count |-> 0, cards |-> <<>>,
          high_speed |-> <<>>, regular |-> <<>>]
    ELSE LET high == group_cards(trains, "KTX", 1) \o group_cards(trains, "SRT", 1)
             reg  == group_cards(trains, "ITX", 1) \o group_cards(trains, "MUGUNGHWA", 1)
         IN  [called |-> TRUE, raised |-> FALSE,
              header_count |-> Len(trains),             \* line 699
              cards |-> high \o reg,
              high_speed |-> high, regular |-> reg]

PanelTrains ==
    { Train(T0830, T1115, Str(KTX), Str(<<"1", "0", "1">>),
            Str(<<"8", "4", "0", "0">>), Missing),
      Train(T1115, T0830, Str(KTX \o <<"-", "san", "cheon">>), Str(<<"1", "0", "3">>),
            Str(<<"8", "4", "0", "0">>), Missing),
      Train(T0830, T1115, Str(SRT), Str(<<"3", "0", "1">>),
            Str(<<"7", "9", "0", "0">>), Missing),
      Train(T0830, T1115, Str(ITX \o <<"-">> \o Saemaeul), Str(<<"1", "0", "0", "1">>),
            Str(<<"4", "8", "0", "0">>), Missing),
      Train(T0830, T1115, Str(ITX \o <<"-">> \o Maeum), Str(<<"1", "1", "0", "1">>),
            None, Missing),
      Train(T0830, T1115, Str(Mugunghwa \o <<"ho">>), Str(<<"1", "2", "0", "1">>),
            Str(<<"2", "6", "0", "0">>), Missing),
      Train(T0830, T1115, Str(<<"nu", "ri", "ro">>), Str(<<"1", "7", "0", "1">>),
            Str(<<"2", "6", "0", "0">>), Missing),
      \* a traingradename that two rules match (무궁화-ITX)
      Train(T0830, T1115, Str(Mugunghwa \o <<"-">> \o ITX), Str(<<"1", "3", "0", "1">>),
            Str(<<"2", "6", "0", "0">>), Missing),
      Train(None, T1115, Str(KTX), Str(<<"1", "0", "5">>),
            Str(<<"8", "4", "0", "0">>), Missing),
      Train(T0830, T1115, None, Str(<<"1", "0", "7">>),
            Str(<<"8", "4", "0", "0">>), Missing) }

NoPanel ==
    [called |-> FALSE, raised |-> FALSE, header_count |-> 0, cards |-> <<>>,
     high_speed |-> <<>>, regular |-> <<>>]

IdlePanel ==
    /\ date_trains = <<>>
    /\ panelOut = NoPanel

\* a date is rendered only when it returned at least one train (line 1227)
InitPanel ==
    /\ date_trains \in SeqsUpTo(PanelTrains, MaxTrains) \ {<<>>}
    /\ panelOut = NoPanel

RenderDatePanel ==
    /\ ~panelOut.called
    /\ panelOut' = date_panel(date_trains)
    /\ UNCHANGED <<date_trains, notPanel>>

(***************************************************************************)
(* hub.py: create_hub_page                                                 *)
(***************************************************************************)
MaxHubOps == 3    \* create_hub_page runs and page-date calls in one behaviour

\* The value of "도착지": the key is absent, or it is a list of names.
NoList  == [k |-> "missing", v |-> <<>>]
List(v) == [k |-> "list", v |-> v]

HubDestLists == {<<Append(Daegu, Yeok), Busan>>, <<Busan, Busan, Daejeon>>}

\* The input file: missing, of size 0, rejected by json.load, a JSON value
\* that is no object, or an object with or without the two keys.
HubInputs ==
    {[kind |-> k, from_station |-> Missing, destinations |-> NoList] :
        k \in {"missing", "empty", "bad_json", "non_object"}}
    \cup
    {[kind |-> "object", from_station |-> f, destinations |-> d] :
        f \in {Missing, Str(<<>>)} \cup {Str(o) : o \in Origins},
        d \in {NoList, List(<<>>)} \cup {List(v) : v \in HubDestLists}}

\* the calendar day of a value of now (two values of now per day)
DayOf(t) == (t + 1) \div 2

\* the early returns, lines 25-50
input_rejected_NoDestinationCheck(inp) ==
    \/ inp.kind \in {"missing", "empty", "bad_json"}
    \/ inp.kind = "object" /\ Falsy(inp.from_station)

input_rejected(inp) ==
    \/ inp.kind \in {"missing", "empty"}
    \/ inp.kind = "bad_json"
    \/ inp.kind = "object" /\ Falsy(inp.from_station)
    \/ inp.kind = "object" /\ (inp.destinations.k # "list" \/ inp.destinations.v = <<>>)

\* f"{from_station_with_station}에서-{dest_with_station}-가는-열차시간표"
route_base(from_with, dest_with) ==
    from_with \o <<"e", "seo", "-">> \o dest_with
              \o <<"-", "ga", "neun", "-">> \o Timetable

\* matching_links, lines 130-141, without the unused route_filename
matching_links_Unique(from_with, destinations) ==
    LET first(i) == \A j \in 1..(i - 1) : destinations[j] # destinations[i]
        kept == SelectSeq([i \in 1..Len(destinations) |-> i], first)
    IN  [n \in 1..Len(kept) |->
            [to_station |-> replace_yeok(destinations[kept[n]]),
             route_base |-> route_base(from_with, with_station(destinations[kept[n]]))]]

matching_links(from_with, destinations) ==
    [i \in 1..Len(destinations) |->
        [to_station |-> replace_yeok(destinations[i]),
         route_base |-> route_base(from_with, with_station(destinations[i]))]]

hub_load_meta_Fresh(file) ==
    [has_pages |-> FALSE, pages |-> EmptyPages,
     hubs |-> IF file.kind = "json" THEN file.hubs ELSE NoHubs]

\* meta.json as create_hub_page reads it, lines 75-85
hub_load_meta(file) ==
    IF file.kind = "json"
    THEN [has_pages |-> file.has_pages, pages |-> file.pages, hubs |-> file.hubs]
    ELSE [has_pages |-> FALSE, pages |-> EmptyPages, hubs |-> NoHubs]

\* meta_entry, lines 95-117
meta_entry_Recreated(existing, t, total, file_exists) ==
    [created            |-> DayOf(t),
     created_iso        |-> t,
     modified           |-> DayOf(t),
     modified_iso       |-> t,
     total_destinations |-> total,
     build_count        |-> existing.build_count + 1,
     status             |-> IF file_exists THEN "updated" ELSE "created"]

meta_entry(existing, t, total, file_exists) ==
    [created            |-> IF existing # NoHub THEN existing.created ELSE DayOf(t),
     created_iso        |-> IF existing # NoHub THEN existing.created_iso ELSE t,
     modified           |-> DayOf(t),
     modified_iso       |-> t,
     total_destinations |-> total,
     build_count        |-> existing.build_count + 1,
     status             |-> IF file_exists THEN "updated" ELSE "created"]

\* the page: the <a href> items of lines 218-231, the ItemList of lines
\* 165-182, the published time and the build number of the footer
NoHubFile == [exists |-> FALSE, links |-> <<>>, numberOfItems |-> 0,
              item_urls |-> <<>>, created_iso |-> 0, build_count |-> 0]

hub_html(links, entry) ==
    [exists        |-> TRUE,
     links         |-> [i \in 1..Len(links) |->
                          [href |-> links[i].route_base, to |-> links[i].to_station]],
     numberOfItems |-> Len(links),
     item_urls     |-> [i \in 1..Len(links) |-> links[i].route_base],
     created_iso   |-> entry.created_iso,
     build_count   |-> entry.build_count]

HubOut(result, meta, files, dir) ==
    [result |-> result, meta |-> meta, files |-> files, dir |-> dir]

\* lines 212-616: the page is written, then meta.json. A write that fails
\* raises before the file is replaced.
write_outputs_MetaFirst(file, files, md, key, page, html_ok, meta_ok) ==
    LET saved == IF meta_ok
                 THEN [kind |-> "json", has_pages |-> md.has_pages,
                       pages |-> md.pages, hubs |-> md.hubs]
                 ELSE file
    IN  IF ~html_ok
        THEN HubOut("False", saved, files, TRUE)
        ELSE HubOut("True", saved, [files EXCEPT ![key] = page], TRUE)

write_outputs(file, files, md, key, page, html_ok, meta_ok) ==
    IF ~html_ok
    THEN HubOut("False", file, files, TRUE)
    ELSE HubOut("True",
                IF meta_ok
                THEN [kind |-> "json", has_pages |-> md.has_pages,
                      pages |-> md.pages, hubs |-> md.hubs]
                ELSE file,
                [files EXCEPT ![key] = page], TRUE)

\* create_hub_page: what it returns and what is on disk afterwards.
\* dir_ok = FALSE is os.makedirs raising for a folder that does not exist.
create_hub_page(inp, file, files, dir, t, dir_ok, html_ok, meta_ok) ==
    IF input_rejected(inp) THEN HubOut("False", file, files, dir)
    ELSE IF inp.kind # "object" THEN HubOut("raised", file, files, dir)
    ELSE IF ~dir /\ ~dir_ok THEN HubOut("raised", file, files, dir)
    ELSE
        LET from_with == with_station(inp.from_station.s)
            key       == base_filename(from_with)
            md        == hub_load_meta(file)
            entry     == meta_entry(md.hubs[key], t,
                                    Len(inp.destinations.v), files[key].exists)
            links     == matching_links(from_with, inp.destinations.v)
        IN  write_outputs(file, files, [md EXCEPT !.hubs[key] = entry], key,
                          hub_html(links, entry), html_ok, meta_ok)

NoHubInput == [kind |-> "none", from_station |-> Missing, destinations |-> NoList]

InitHubHist ==
    [ops        |-> 0,                          \* operations made
     true_runs  |-> [k \in HubKeys |-> 0],      \* runs that returned True
     saved_runs |-> [k \in HubKeys |-> 0],      \* of these, with meta.json saved
     first      |-> [k \in HubKeys |-> NoHub],  \* the entry first saved
     last       |-> [op |-> "none", inp |-> NoHubInput, page_url |-> "",
                     result |-> "none", meta_before |-> AbsentFile,
                     files_before |-> [k \in HubKeys |-> NoHubFile],
                     dir_before |-> FALSE, saved |-> FALSE]]

IdleHub ==
    /\ hubFiles = [k \in HubKeys |-> NoHubFile]
    /\ outdir = FALSE
    /\ hubHist = InitHubHist

\* meta.json lies in the output folder
InitHub ==
    /\ hubFiles = [k \in HubKeys |-> NoHubFile]
    /\ outdir \in (IF metaFile.kind = "absent" THEN BOOLEAN ELSE {TRUE})
    /\ hubHist = InitHubHist

\* the meta.json key of an input that passes the early returns
KeyOf(inp) == base_filename(with_station(inp.from_station.s))

\* one create_hub_page run
CreateHubPage(inp, dir_ok, html_ok, meta_ok) ==
    /\ hubHist.ops < MaxHubOps
    /\ LET out   == create_hub_page(inp, metaFile, hubFiles, outdir, now,
                                    dir_ok, html_ok, meta_ok)
           true  == out.result = "True"
           saved == true /\ meta_ok
       IN  /\ metaFile' = out.meta
           /\ hubFiles' = out.files
           /\ outdir' = out.dir
           /\ hubHist' =
                [hubHist EXCEPT
                   !.ops = @ + 1,
                   !.true_runs = IF true THEN [@ EXCEPT ![KeyOf(inp)] = @ + 1] ELSE @,
                   !.saved_runs = IF saved THEN [@ EXCEPT ![KeyOf(inp)] = @ + 1] ELSE @,
                   !.first = IF saved /\ @[KeyOf(inp)] = NoHub
                             THEN [@ EXCEPT ![KeyOf(inp)] = out.meta.hubs[KeyOf(inp)]]
                             ELSE @,
                   !.last = [op |-> "hub", inp |-> inp, page_url |-> "",
                             result |-> out.result, meta_before |-> metaFile,
                             files_before |-> hubFiles, dir_before |-> outdir,
                             saved |-> saved]]
    /\ UNCHANGED <<meta_data, now, metaHist, notHub>>

\* make_html.py 538-539 and 91-95: a MetaManager is constructed, asked for
\* the dates of one page, and dropped
GetFormattedDates(page_url, ok) ==
    /\ hubHist.ops < MaxHubOps
    /\ LET md == get_or_create_page_dates(load_meta(metaFile), page_url, now)
       IN  /\ metaFile' = save_meta(md, metaFile, ok)
           /\ hubHist' =
                [hubHist EXCEPT
                   !.ops = @ + 1,
                   !.last = [op |-> "dates", inp |-> NoHubInput,
                             page_url |-> page_url, result |-> "none",
                             meta_before |-> metaFile, files_before |-> hubFiles,
                             dir_before |-> outdir, saved |-> ok]]
    /\ outdir' = (outdir \/ ok)       \* save_meta makes the folder, line 48
    /\ UNCHANGED <<meta_data, now, metaHist, hubFiles, notHub>>

(***************************************************************************)
(* process_multi_date_route                                                *)
(***************************************************************************)
MaxDays == 3    \* largest max_days

\* the page of the route that is processed
RunPage == "/a"

\* get_multiple_dates: a date is the number of days after today, so that
\* the order of the numbers is the order of the calendar
get_multiple_dates_Week(days) == [i \in 1..7 |-> i]

get_multiple_dates(days) == [i \in 1..(IF days > 0 THEN days ELSE 0) |-> i]

RunKTX    == Train(T0830, T1115, Str(KTX), Str(<<"1", "0", "1">>),
                   Str(<<"8", "4", "0", "0">>), Missing)
RunNoDep  == Train(None, T1115, Str(KTX), Str(<<"1", "0", "5">>),
                   Str(<<"8", "4", "0", "0">>), Missing)
RunNoArr  == Train(T0830, Str(<<>>), Str(SRT), Str(<<"3", "0", "1">>),
                   Str(<<"7", "9", "0", "0">>), Missing)
RunNoType == Train(T0830, T1115, None, Str(<<"1", "0", "7">>),
                   Str(<<"8", "4", "0", "0">>), Missing)

\* the lists a date can come back with, from the API or from a cache file
RunLists ==
    {<<>>, <<RunKTX>>, <<RunNoDep, RunNoArr>>, <<RunKTX, RunNoDep>>, <<RunNoType>>}

\* the cache file of a date as the run finds it: none, unreadable, fresh
\* (age 0) or six hours old. The run asks for every key once, so what it
\* writes into api_cache is not read back by it.
RunCacheFiles ==
    {NoCacheFile, BadCacheFile(0)}
    \cup {CacheFile(m, d) : m \in {0, 0 - 6}, d \in RunLists}

\* lines 1224-1228: the dates that came back with at least one train, in
\* the order of all_date_data
valid_dates_All(dates, data) == dates

valid_dates(dates, data) == SelectSeq(dates, LAMBDA d : Len(data[d]) >= 1)

\* lines 1234-1254: the trains of the valid dates that have both times
RECURSIVE combined_trains_NoFilter(_, _, _)
combined_trains_NoFilter(valid, data, i) ==
    IF i > Len(valid) THEN <<>>
    ELSE [n \in 1..Len(data[valid[i]]) |->
            [train |-> data[valid[i]][n], date_str |-> valid[i]]]
         \o combined_trains_NoFilter(valid, data, i + 1)

RECURSIVE combined_trains(_, _, _)
combined_trains(valid, data, i) ==
    IF i > Len(valid) THEN <<>>
    ELSE LET kept == SelectSeq(data[valid[i]], has_times)
         IN  [n \in 1..Len(kept) |-> [train |-> kept[n], date_str |-> valid[i]]]
             \o combined_trains(valid, data, i + 1)

\* element ids of the page: f"date-{date_str}", f"tab-{date_str}"
DateId(d) == <<"date-", d>>
TabId(d)  == <<"tab-", d>>

\* lines 577-594: the tab buttons
tab_buttons(valid) ==
    [i \in 1..Len(valid) |->
        [date          |-> valid[i],
         id            |-> TabId(valid[i]),
         active        |-> (i = 1),
         aria_selected |-> (i = 1),
         aria_controls |-> DateId(valid[i])]]

\* lines 596-703: the date panels
date_contents(valid, data) ==
    [i \in 1..Len(valid) |->
        [date            |-> valid[i],
         id              |-> DateId(valid[i]),
         active          |-> (i = 1),
         visible         |-> (i = 1),            \* no style='display:none;'
         aria_labelledby |-> TabId(valid[i]),
         panel           |-> date_panel(data[valid[i]])]]

NoRouteFile == [exists |-> FALSE, tabs |-> <<>>, panels |-> <<>>]

RunOut(result, meta, file, divided, write_failed) ==
    [result |-> result, meta |-> meta, file |-> file, divided |-> divided,
     write_failed |-> write_failed]

\* generate_multi_date_html and lines 1284-1306: the dates of the page are
\* taken from a MetaManager first (538-539), which saves meta.json; then
\* the averages are computed (551) and the panels rendered; the page is
\* written last. A write that fails raises before the file is replaced.
\* saved is meta.json after lines 538-539, panels the rendered date panels.
generate_and_write(days, valid, panels, saved, old, write_ok) ==
    IF days = 0
    THEN RunOut("raised", saved, old, TRUE, FALSE)          \* ZeroDivisionError
    ELSE IF \E i \in 1..Len(panels) : panels[i].panel.raised
    THEN RunOut("raised", saved, old, TRUE, FALSE)
    ELSE IF write_ok
    THEN RunOut("True", saved,
                [exists |-> TRUE, tabs |-> tab_buttons(valid), panels |-> panels],
                TRUE, FALSE)
    ELSE RunOut("False", saved, old, TRUE, TRUE)

\* lines 538-539: MetaManager().get_formatted_dates(page_url), the save
\* included; meta.json afterwards
page_dates(meta, t, meta_ok) ==
    save_meta(get_or_create_page_dates(load_meta(meta), RunPage, t), meta, meta_ok)

\* lines 1222-1306, after the dates have been fetched
finish_route(days, dates, data, meta, old, t, meta_ok, write_ok) ==
    LET valid == valid_dates(dates, data)
    IN  IF valid = <<>>
        THEN RunOut("False", meta, old, FALSE, FALSE)             \* line 1232
        ELSE IF Len(combined_trains(valid, data, 1)) < 1
        THEN RunOut("False", meta, old, FALSE, FALSE)             \* line 1258
        ELSE generate_and_write(days, valid, date_contents(valid, data),
                                page_dates(meta, t, meta_ok), old, write_ok)

\* the run at line 1201
start_route(days, meta) ==
    [pc |-> "fetch", days |-> days, dates |-> get_multiple_dates(days),
     all_date_data |-> <<>>, fetched |-> <<>>, http_requests |-> 0,
     result |-> "none", divided |-> FALSE, write_failed |-> FALSE,
     meta_before |-> meta]

NoRun ==
    [pc |-> "idle", days |-> 0, dates |-> <<>>, all_date_data |-> <<>>,
     fetched |-> <<>>, http_requests |-> 0, result |-> "none",
     divided |-> FALSE, write_failed |-> FALSE, meta_before |-> AbsentFile]

IdleRun ==
    /\ run = NoRun
    /\ routeFile = NoRouteFile

\* meta.json at the start: none, unparseable, without the page, with it
RunMetaFiles ==
    {AbsentFile, CorruptFile, JsonFile(TRUE, EmptyPages),
     JsonFile(TRUE, [EmptyPages EXCEPT ![RunPage] =
                       [published_date |-> 1, modified_date |-> 1, version |-> 1]])}

InitRun ==
    /\ run \in {start_route(days, metaFile) : days \in (0 - 1)..MaxDays}
    /\ routeFile = NoRouteFile

\* lines 1207-1220: one pass of the loop, the fetch_train_data call included
FetchDate(file, api, resp, write_ok) ==
    /\ run.pc = "fetch"
    /\ Len(run.fetched) < Len(run.dates)
    /\ LET d == run.dates[Len(run.fetched) + 1]
           r == fetch_train_data(file, clock, api, resp, write_ok)
       IN  run' = [run EXCEPT
                     !.all_date_data = Append(@, r.returned),
                     !.fetched = Append(@, d),
                     !.http_requests = @ + (IF r.http THEN 1 ELSE 0)]
    /\ UNCHANGED <<routeFile, metaVars, notRun>>

\* lines 1222-1306: the rest of the run
FinishRoute(meta_ok, write_ok) ==
    /\ run.pc = "fetch"
    /\ Len(run.fetched) = Len(run.dates)
    /\ \E out \in {finish_route(run.days, run.dates, run.all_date_data, metaFile,
                               routeFile, now, meta_ok, write_ok)} :
           /\ run' = [run EXCEPT !.pc = "done", !.result = out.result,
                                 !.divided = out.divided,
                                 !.write_failed = out.write_failed]
           /\ metaFile' = out.meta
           /\ routeFile' = out.file
    /\ UNCHANGED <<meta_data, now, metaHist, notRun>>

(***************************************************************************)
(* make_html.py: main                                                      *)
(***************************************************************************)
MaxStations == 2    \* JSON files in the input folder

\* format_station, lines 158-160
format_station(name) ==
    IF Len(name) > 0 /\ name[Len(name)] = Yeok THEN name ELSE Append(name, Yeok)

\* TrainScheduleGenerator.generate_filename, lines 402-407
generate_filename(from_station, to_station, use_html_extension) ==
    from_station \o <<"e", "seo", "-">> \o to_station
                 \o <<"-", "ga", "neun", "-">> \o Timetable
                 \o (IF use_html_extension THEN <<".html">> ELSE <<>>)

\* hub.py 63-69: the file name of a hub page
hub_filename(from_with, use_html_extension) ==
    base_filename(from_with) \o (IF use_html_extension THEN <<".html">> ELSE <<>>)

\* the route pages make_html.py writes for the origin 서울
RoutePages ==
    {generate_filename(format_station(Seoul), format_station(Busan), FALSE),
     generate_filename(format_station(Seoul), format_station(Daejeon), FALSE)}

\* the hub pages hub.py writes for the origin 서울, without and with --html-ext
HubPages ==
    {hub_filename(with_station(Seoul), FALSE), hub_filename(with_station(Seoul), TRUE)}

MetaJson  == <<"meta", ".json">>
IndexHtml == <<"index", ".html">>

\* what the output folder holds when main starts
FolderSamples ==
    {{}, {MetaJson, IndexHtml}, RoutePages \cup {MetaJson},
     RoutePages \cup HubPages \cup {MetaJson, IndexHtml}}

\* glob.glob(os.path.join(output_folder, "*열차시간표*")), lines 1410-1411:
\* the names that contain 열차시간표 (none of the names starts with a dot)
glob_timetable(files) == {f \in files : Contains(Timetable, f)}

\* lines 1407-1417: the folder after the cleanup; failing are the files
\* whose os.remove raises, which is logged
cleanup(files, overwrite_mode, failing) ==
    IF overwrite_mode THEN files
    ELSE files \ (glob_timetable(files) \ failing)

\* What process_station meets for one origin station (lines 1313-1328) and,
\* when it reaches its loop, the route pages it writes.
StationCases ==
    {[start |-> s, pages |-> {}] : s \in {"no_id", "no_file", "bad_json"}}
    \cup {[start |-> "ready", pages |-> P] :
            P \in {{}, {generate_filename(format_station(Seoul),
                                          format_station(Busan), FALSE)}, RoutePages}}

\* process_station as main sees it: an exception, or the count returned
process_station(case) ==
    [raised   |-> case.start = "bad_json",                     \* json.load, line 1327
     returned |-> IF case.start = "ready" THEN Cardinality(case.pages) ELSE 0,
     pages    |-> IF case.start = "ready" THEN case.pages ELSE {}]

\* lines 1421-1428: the counter after one station and whether the loop
\* goes on
after_station_StopOnError(result, total) ==
    [total_generated |-> IF result.raised THEN total ELSE total + result.returned,
     go_on |-> ~result.raised]

after_station(result, total) ==
    [total_generated |-> IF result.raised THEN total ELSE total + result.returned,
     go_on |-> TRUE]

\* the sorted list of a set of station numbers (available_stations.sort())
RECURSIVE sorted(_)
sorted(S) ==
    IF S = {} THEN <<>>
    ELSE LET least == CHOOSE x \in S : \A y \in S : x <= y
         IN  <<least>> \o sorted(S \ {least})

NoMain ==
    [pc |-> "idle", available_stations |-> <<>>, target_station |-> 0,
     overwrite_mode |-> TRUE, selected_stations |-> <<>>, i |-> 1,
     total_generated |-> 0, results |-> <<>>, folder_before |-> {}]

IdleMain ==
    /\ main = NoMain
    /\ folder = {}

\* Stations are numbered in the order of their names; target_station 0 is
\* the empty string, MaxStations + 1 a name without a JSON file.
InitMain ==
    /\ \E available \in SUBSET (1..MaxStations), target \in 0..(MaxStations + 1),
          overwrite \in BOOLEAN :
          main = [NoMain EXCEPT !.pc = "start",
                                !.available_stations = sorted(available),
                                !.target_station = target,
                                !.overwrite_mode = overwrite]
    /\ folder \in FolderSamples

\* lines 1374-1417: the stations are selected and the folder is cleaned up,
\* or main returns
SelectAndCleanup(failing) ==
    /\ main.pc = "start"
    /\ failing \subseteq glob_timetable(folder)
    /\ LET a == main.available_stations
           t == main.target_station
           known == \E n \in 1..Len(a) : a[n] = t
       IN  IF a = <<>> \/ (t # 0 /\ ~known)
           THEN /\ main' = [main EXCEPT !.pc = "returned"]
                /\ folder' = folder
           ELSE /\ main' = [main EXCEPT
                              !.pc = "loop",
                              !.selected_stations = IF t # 0 THEN <<t>> ELSE a,
                              !.folder_before = folder]
                /\ folder' = cleanup(folder, main.overwrite_mode, failing)
    /\ UNCHANGED notMain

\* lines 1420-1428: one station
ProcessStation(case) ==
    /\ main.pc = "loop"
    /\ main.i <= Len(main.selected_stations)
    /\ \E result \in {process_station(case)} :
       \E after \in {after_station(result, main.total_generated)} :
          /\ main' = [main EXCEPT
                        !.results = Append(@, [raised |-> result.raised,
                                               returned |-> result.returned]),
                        !.total_generated = after.total_generated,
                        !.i = IF after.go_on THEN @ + 1 ELSE @,
                        !.pc = IF after.go_on THEN @ ELSE "failed"]
          /\ folder' = folder \cup result.pages
    /\ UNCHANGED notMain

\* lines 1430-1459: the list is exhausted
FinishMain ==
    /\ main.pc = "loop"
    /\ main.i > Len(main.selected_stations)
    /\ main' = [main EXCEPT !.pc = "done"]
    /\ UNCHANGED <<folder, notMain>>

(***************************************************************************)
(* generate_multi_date_html: the daily average                             *)
(***************************************************************************)
MaxAvgDays == 9     \* largest MAX_DAYS drawn
MaxTotal   == 12    \* largest len(combined_trains) drawn

\* round(n / d) for integers n >= 0, d > 0: the quotient is a float, and
\* round() of a float goes to the nearest integer, a tie to the even one.
\* n / d is a tie exactly when 2 * (n % d) = d, and k + 0.5 is a float.
py_round_div(n, d) ==
    LET q == n \div d
        r == n % d
    IN  IF 2 * r < d THEN q
        ELSE IF 2 * r > d THEN q + 1
        ELSE IF q % 2 = 0 THEN q ELSE q + 1

\* line 551
avg_trains(total_trains, days) ==
    IF days >= 7 THEN py_round_div(total_trains, 7)
    ELSE py_round_div(total_trains, days)

NoAvg == [total_trains |-> 0, days |-> 0, computed |-> FALSE, avg_trains |-> 0]

IdleAverage == avgStat = NoAvg

\* A page is rendered only for a non-empty combined_trains (line 1256), and
\* dates are requested only for max_days of 1 or more.
InitAverage ==
    \E total \in 1..MaxTotal, days \in 1..MaxAvgDays :
        avgStat = [NoAvg EXCEPT !.total_trains = total, !.days = days]

\* lines 550-551, shown by lines 1128-1136
ComputeAverage ==
    /\ ~avgStat.computed
    /\ avgStat' = [avgStat EXCEPT
                     !.computed = TRUE,
                     !.avg_trains = avg_trains(avgStat.total_trains, avgStat.days)]
    /\ UNCHANGED <<firstLast, hubLink, notPage>>

(***************************************************************************)
(* First and last train: the intro text and the summary statistics         *)
(***************************************************************************)
MaxListed == 3      \* longest combined_trains drawn
ListedDays == 2     \* dates the trains of combined_trains depart on

\* depplandtime of a train that leaves on day d (of January 2025) at hhmm
DepartureTime(d, hhmm) ==
    <<"2", "0", "2", "5", "0", "1">> \o Pad2(d) \o hhmm \o <<"0", "0">>

ListedHHMM ==
    {<<"0", "6", "0", "0">>, <<"0", "8", "3", "0">>,
     <<"1", "2", "0", "0">>, <<"1", "3", "1", "5">>}

\* a < b for two str of digits (code point order)
RECURSIVE str_less(_, _)
str_less(a, b) ==
    IF b = <<>> THEN FALSE
    ELSE IF a = <<>> THEN TRUE
    ELSE IF a[1] # b[1] THEN DigitVal(a[1]) < DigitVal(b[1])
    ELSE str_less(Tail(a), Tail(b))

\* find_first_last_train, lines 260-266: sorted() is stable, so the first
\* element is the earliest of the list with the least key and the last one
\* the latest of the list with the greatest key. The result is a pair of
\* positions in schedule_data; <<0, 0>> is (None, None).
find_first_last_train(trains) ==
    IF trains = <<>> THEN <<0, 0>>
    ELSE LET key(i) == trains[i].departure_time
             n == Len(trains)
         IN  <<CHOOSE i \in 1..n : \A j \in 1..n :
                    /\ ~str_less(key(j), key(i))
                    /\ (j < i => str_less(key(i), key(j))),
               CHOOSE i \in 1..n : \A j \in 1..n :
                    /\ ~str_less(key(i), key(j))
                    /\ (j > i => str_less(key(j), key(i)))>>

\* format_time, lines 206-215: "오전/오후 H시 MM분"
format_time(time) ==
    LET hour   == IntOfDigits(Slice(time, 0, 2))
        minute == IntOfDigits(SliceFrom(time, 2))
    IN  IF hour < 12
        THEN <<"o", "jeon", " ">> \o StrOfNat(hour) \o <<"si", " ">> \o Pad2(minute) \o <<"bun">>
        ELSE IF hour = 12
        THEN <<"o", "hu", " ", "1", "2", "si", " ">> \o Pad2(minute) \o <<"bun">>
        ELSE <<"o", "hu", " ">> \o StrOfNat(hour - 12) \o <<"si", " ">> \o Pad2(minute) \o <<"bun">>

NoInfo == <<"jeong", "bo", "eop", "eum">>     \* 정보없음

\* generate_intro, lines 308-325: first_time and last_time of the text;
\* for an empty list the text names no time (lines 279-284)
intro_times(trains) ==
    IF trains = <<>> THEN [named |-> FALSE, first_time |-> <<>>, last_time |-> <<>>]
    ELSE LET fl == find_first_last_train(trains)
             dep(i) == trains[i].departure_time
             hhmm(i) == IF Len(dep(i)) >= 12 THEN Slice(dep(i), 8, 12) ELSE <<>>
             text(i) == IF hhmm(i) # <<>> THEN format_time(hhmm(i)) ELSE NoInfo
         IN  [named |-> TRUE, first_time |-> text(fl[1]), last_time |-> text(fl[2])]

\* min() / max() of a non-empty set of str of digits
min_str(S) == CHOOSE a \in S : \A b \in S : ~str_less(b, a)
max_str(S) == CHOOSE a \in S : \A b \in S : ~str_less(a, b)

\* lines 548-568: first_train and last_train of the statistics, "HH:MM"
stat_times(trains) ==
    LET all_dep_times ==
            {Slice(trains[i].departure_time, 8, 12) : i \in
                {j \in 1..Len(trains) : trains[j].departure_time # <<>>
                                        /\ trains[j].arrival_time # <<>>}}
        colon(t) == Slice(t, 0, 2) \o <<":">> \o SliceFrom(t, 2)
    IN  IF all_dep_times = {} THEN [first_train |-> NoInfo, last_train |-> NoInfo]
        ELSE [first_train |-> colon(min_str(all_dep_times)),
              last_train  |-> colon(max_str(all_dep_times))]

\* combined_trains, lines 1235-1254: the trains of the valid dates, date by
\* date, in the order of the answers; every one has both times
ListedTrains ==
    {[departure_time |-> DepartureTime(d, t),
      arrival_time |-> DepartureTime(d, <<"2", "3", "0", "0">>), day |-> d] :
        d \in 1..ListedDays, t \in ListedHHMM}

CombinedLists ==
    {l \in SeqsUpTo(ListedTrains, MaxListed) :
        \A i \in 1..(Len(l) - 1) : l[i].day <= l[i + 1].day}

NoFirstLast ==
    [combined_trains |-> <<>>, rendered |-> FALSE,
     intro |-> [named |-> FALSE, first_time |-> <<>>, last_time |-> <<>>],
     stats |-> [first_train |-> <<>>, last_train |-> <<>>]]

IdleFirstLast == firstLast = NoFirstLast

InitFirstLast ==
    \E l \in CombinedLists : firstLast = [NoFirstLast EXCEPT !.combined_trains = l]

\* lines 542-568
RenderFirstLast ==
    /\ ~firstLast.rendered
    /\ firstLast.combined_trains # <<>>                      \* line 1256
    /\ firstLast' = [firstLast EXCEPT
                       !.rendered = TRUE,
                       !.intro = intro_times(firstLast.combined_trains),
                       !.stats = stat_times(firstLast.combined_trains)]
    /\ UNCHANGED <<avgStat, hubLink, notPage>>

(***************************************************************************)
(* The links of a hub page and the file names of the route pages           *)
(***************************************************************************)
MaxLinked == 3      \* longest "도착지" list drawn

LinkedNames == {Busan, Append(Busan, Yeok), Daejeon}

\* hub.py line 223: the href of one link
hub_href(link) == link.route_base

\* make_html.py lines 1313, 1335, 1289: the file name of the route page of
\* one destination
route_page_name(station_name, to_station_raw, use_html_extension) ==
    generate_filename(format_station(station_name), format_station(to_station_raw),
                      use_html_extension)

NoLink ==
    [from_station |-> <<>>, destinations |-> <<>>, use_html_extension |-> FALSE,
     built |-> FALSE, hrefs |-> <<>>, filenames |-> <<>>]

IdleLinks == hubLink = NoLink

InitLinks ==
    \E o \in Origins, d \in SeqsUpTo(LinkedNames, MaxLinked), ext \in BOOLEAN :
        /\ d # <<>>
        /\ hubLink = [NoLink EXCEPT !.from_station = o, !.destinations = d,
                                    !.use_html_extension = ext]

\* both programs run on the same input file with the same setting
BuildLinks ==
    /\ ~hubLink.built
    /\ LET links == matching_links(with_station(hubLink.from_station),
                                   hubLink.destinations)
           ext == hubLink.use_html_extension
       IN  hubLink' = [hubLink EXCEPT
              !.built = TRUE,
              !.hrefs = [i \in 1..Len(links) |-> hub_href(links[i])],
              !.filenames = [i \in 1..Len(hubLink.destinations) |->
                                route_page_name(hubLink.from_station,
                                                hubLink.destinations[i], ext)]]
    /\ UNCHANGED <<avgStat, firstLast, notPage>>

IdlePage == IdleAverage /\ IdleFirstLast /\ IdleLinks

(***************************************************************************)
(* Specifications                                                          *)
(***************************************************************************)
InitSpecMeta ==
    InitMeta /\ IdleFetch /\ IdleStation /\ IdleDuration /\ IdleRoutes /\ IdlePanel
    /\ IdleHub /\ IdleRun /\ IdleMain /\ IdlePage

NextMeta ==
    \/ NewMetaManager
    \/ \E p \in Pages, ok \in BOOLEAN : GetOrCreatePageDates(p, ok)
    \/ TickNow

SpecMeta == InitSpecMeta /\ [][NextMeta]_vars

InitSpecFetch ==
    IdleMeta /\ InitFetch /\ IdleStation /\ IdleDuration /\ IdleRoutes /\ IdlePanel
    /\ IdleHub /\ IdleRun /\ IdleMain /\ IdlePage

\* the answer and the outcome of the cache write matter only when the
\* request and the parse succeed
NextFetch ==
    \/ \E k \in CacheKeys, api \in ApiOutcomes :
          \E resp \in IF api = "ok" THEN ApiLists ELSE {<<>>},
             ok \in IF api = "ok" THEN BOOLEAN ELSE {TRUE} :
                FetchTrainData(k, api, resp, ok)
    \/ TickClock

SpecFetch == InitSpecFetch /\ [][NextFetch]_vars

InitSpecStation ==
    IdleMeta /\ IdleFetch /\ InitStation /\ IdleDuration /\ IdleRoutes /\ IdlePanel
    /\ IdleHub /\ IdleRun /\ IdleMain /\ IdlePage

NextStation ==
    \/ \E start \in {"ready", "no_id", "no_file", "bad_json"} : StartStation(start)
    \/ SkipDestination
    \/ \E in \in RouteInputs : ProcessDestination(in)
    \/ ReturnCount

SpecStation == InitSpecStation /\ [][NextStation]_vars

InitSpecDuration ==
    IdleMeta /\ IdleFetch /\ IdleStation /\ InitDuration /\ IdleRoutes /\ IdlePanel
    /\ IdleHub /\ IdleRun /\ IdleMain /\ IdlePage

NextDuration == CalculateDuration

SpecDuration == InitSpecDuration /\ [][NextDuration]_vars

InitSpecRoutes ==
    IdleMeta /\ IdleFetch /\ IdleStation /\ IdleDuration /\ InitRoutes /\ IdlePanel
    /\ IdleHub /\ IdleRun /\ IdleMain /\ IdlePage

NextRoutes ==
    \/ FindFastestRoute
    \/ FindCheapestRoute

SpecRoutes == InitSpecRoutes /\ [][NextRoutes]_vars

InitSpecPanel ==
    IdleMeta /\ IdleFetch /\ IdleStation /\ IdleDuration /\ IdleRoutes /\ InitPanel
    /\ IdleHub /\ IdleRun /\ IdleMain /\ IdlePage

NextPanel == RenderDatePanel

SpecPanel == InitSpecPanel /\ [][NextPanel]_vars

InitSpecHub ==
    InitMeta /\ IdleFetch /\ IdleStation /\ IdleDuration /\ IdleRoutes /\ IdlePanel
    /\ InitHub /\ IdleRun /\ IdleMain /\ IdlePage

NextHub ==
    \/ \E inp \in HubInputs :
          \* a write can only fail where the run reaches it
          \E dir_ok \in (IF input_rejected(inp) \/ outdir THEN {TRUE} ELSE BOOLEAN) :
          \E html_ok \in (IF input_rejected(inp) \/ ~dir_ok THEN {TRUE} ELSE BOOLEAN) :
          \E meta_ok \in (IF input_rejected(inp) \/ ~html_ok THEN {TRUE} ELSE BOOLEAN) :
             CreateHubPage(inp, dir_ok, html_ok, meta_ok)
    \/ \E p \in Pages, ok \in BOOLEAN : GetFormattedDates(p, ok)
    \/ TickNow

SpecHub == InitSpecHub /\ [][NextHub]_vars

InitSpecRun ==
    /\ metaFile \in RunMetaFiles
    /\ meta_data = NoInstance
    /\ now = 2
    /\ metaHist = InitMetaHist
    /\ IdleFetch /\ IdleStation /\ IdleDuration /\ IdleRoutes /\ IdlePanel
    /\ IdleHub /\ InitRun /\ IdleMain /\ IdlePage

NextRun ==
    \/ \E file \in RunCacheFiles :
       \* the request is made only without a usable cache file, and the
       \* cache write only after an answer
       \E api \in (IF cache_hit(file, clock) THEN {"ok"} ELSE ApiOutcomes) :
       \E resp \in (IF cache_hit(file, clock) \/ api # "ok" THEN {<<>>} ELSE RunLists) :
       \E write_ok \in (IF cache_hit(file, clock) \/ api # "ok" THEN {TRUE} ELSE BOOLEAN) :
          FetchDate(file, api, resp, write_ok)
    \/ \E meta_ok, write_ok \in BOOLEAN : FinishRoute(meta_ok, write_ok)

SpecRun == InitSpecRun /\ [][NextRun]_vars

InitSpecMain ==
    IdleMeta /\ IdleFetch /\ IdleStation /\ IdleDuration /\ IdleRoutes /\ IdlePanel
    /\ IdleHub /\ IdleRun /\ InitMain /\ IdlePage

NextMain ==
    \/ \E failing \in SUBSET (RoutePages \cup HubPages) : SelectAndCleanup(failing)
    \/ \E case \in StationCases : ProcessStation(case)
    \/ FinishMain

SpecMain == InitSpecMain /\ [][NextMain]_vars

\* main is sequential code and every call it makes returns or raises: a
\* step that can be taken is taken
FairSpecMain == SpecMain /\ WF_vars(NextMain)

InitSpecAverage ==
    IdleMeta /\ IdleFetch /\ IdleStation /\ IdleDuration /\ IdleRoutes /\ IdlePanel
    /\ IdleHub /\ IdleRun /\ IdleMain
    /\ InitAverage /\ IdleFirstLast /\ IdleLinks

NextAverage == ComputeAverage

SpecAverage == InitSpecAverage /\ [][NextAverage]_vars

InitSpecFirstLast ==
    IdleMeta /\ IdleFetch /\ IdleStation /\ IdleDuration /\ IdleRoutes /\ IdlePanel
    /\ IdleHub /\ IdleRun /\ IdleMain
    /\ IdleAverage /\ InitFirstLast /\ IdleLinks

NextFirstLast == RenderFirstLast

SpecFirstLast == InitSpecFirstLast /\ [][NextFirstLast]_vars

InitSpecLinks ==
    IdleMeta /\ IdleFetch /\ IdleStation /\ IdleDuration /\ IdleRoutes /\ IdlePanel
    /\ IdleHub /\ IdleRun /\ IdleMain
    /\ IdleAverage /\ IdleFirstLast /\ InitLinks

NextLinks == BuildLinks

SpecLinks == InitSpecLinks /\ [][NextLinks]_vars

(***************************************************************************)
(* Claims                                                                  *)
(***************************************************************************)

C2_VersionCountsCalls ==
    /\ metaHist.all_saved =>
          \A p \in Pages :
              IF metaHist.calls[p] = 0
              THEN metaFile.pages[p] = NoPage
              ELSE /\ metaFile.kind = "json"
                   /\ metaFile.pages[p].version = metaHist.calls[p]
                   /\ metaFile.pages[p].modified_date = metaHist.last[p]
    /\ \A p \in Pages :
          meta_data.live /\ metaHist.last_instance[p] = metaHist.instances
                         /\ metaHist.calls[p] > 0
              => /\ meta_data.pages[p].modified_date = metaHist.last[p]
                 /\ meta_data.pages[p].version >= 1

\* three calls for one page over two instances and two moments, all saved
C2_Witness ==
    /\ metaHist.all_saved
    /\ metaHist.instances >= 2
    /\ \E p \in Pages :
          /\ metaHist.calls[p] = 3
          /\ metaFile.pages[p].version = 3
          /\ metaFile.pages[p].modified_date > metaFile.pages[p].published_date

\* C3: a fetch_train_data call makes no HTTP request exactly when the cache
\* file of its key exists, is less than 6 hours old and parses, and it then
\* returns the cached list.
C3_CacheUsedExactlyWhenFresh ==
    lastFetch.called =>
        LET f     == lastFetch.before
            fresh == f.exists /\ clock - f.mtime < 6 /\ f.parses
        IN  /\ lastFetch.http <=> ~fresh
            /\ ~lastFetch.http => lastFetch.returned = f.data

\* a list written 5 hours ago is returned without a request
C3_Witness ==
    /\ lastFetch.called
    /\ ~lastFetch.http
    /\ lastFetch.before.mtime > 0
    /\ clock - lastFetch.before.mtime = 5
    /\ lastFetch.returned # <<>>

\* C4: when the API call fails, fetch_train_data returns [], raises nothing
\* and the cache file of the key is what it was before the call.
C4_ApiFailureLeavesCache ==
    lastFetch.called /\ lastFetch.api \in {"request_exception", "bad_xml", "result_code"}
        => /\ lastFetch.returned = <<>>
           /\ ~lastFetch.raised
           /\ cache[lastFetch.key] = lastFetch.before

\* the request fails over a cache file that is too old: the old file stays
C4_Witness ==
    /\ lastFetch.called
    /\ lastFetch.api = "result_code"
    /\ lastFetch.before.exists
    /\ lastFetch.before.parses
    /\ clock - lastFetch.before.mtime >= 6
    /\ cache[lastFetch.key] = lastFetch.before

\* C5: when the response was fetched and parsed (resultCode "00") and the
\* write of the cache file fails, fetch_train_data returns the records parsed
\* from the response.
C5_FailedCacheWriteKeepsRecords ==
    lastFetch.called /\ lastFetch.api = "ok" /\ ~lastFetch.write_ok
        => lastFetch.returned = lastFetch.resp

\* C6: process_station counts exactly the destinations for which
\* process_multi_date_route returned True; a failed page write or an
\* exception of one destination is not counted and does not end the loop,
\* which reaches the end of the destination list.
C6_StationCountsTrueRoutes ==
    /\ generated_count = Cardinality({i \in 1..Len(outcomes) : outcomes[i] = "True"})
    /\ pcStation = "raised" => outcomes = <<>>
    /\ pcStation = "loop" => Len(outcomes) = idx - 1
    /\ pcStation = "done" =>
          /\ Len(outcomes) = Len(arrival_list)
          /\ \A i \in 1..Len(outcomes) :
                outcomes[i] = "skipped" <=> arrival_list[i] \notin station_ids

\* a failed write and an exception, each followed by a page that is counted
C6_Witness ==
    /\ pcStation = "done"
    /\ Len(outcomes) = 3
    /\ outcomes[1] = "False_write"
    /\ outcomes[2] = "raised"
    /\ outcomes[3] = "True"
    /\ generated_count = 1

\* minutes since midnight of an HHMM string of digits
MinuteOfDay(hhmm) ==
    IntOfDigits(SubSeq(hhmm, 1, 2)) * 60 + IntOfDigits(SubSeq(hhmm, 3, 4))

\* C7: for valid HHMM times calculate_duration reports (a - d) mod 1440
\* minutes as "H시간 M분" with 0 <= H <= 23 and 0 <= M <= 59, and the inline
\* computation of generate_multi_date_html gives the same text.
C7_DurationIsModularDifference ==
    durOut.called =>
        LET total == (MinuteOfDay(arr_time) - MinuteOfDay(dep_time)) % 1440
            m     == DurationSearch(durOut.method)
        IN  /\ m.ok
            /\ m.hours \in 0..23
            /\ m.minutes \in 0..59
            /\ m.hours * 60 + m.minutes = total
            /\ durOut.method = StrOfNat(m.hours) \o <<"si", "gan", " ">>
                                 \o StrOfNat(m.minutes) \o <<"bun">>
            /\ durOut.inline = durOut.method

\* 23:59 to 00:01 is 2 minutes, over midnight
C7_Witness ==
    /\ durOut.called
    /\ dep_time = <<"2", "3", "5", "9">>
    /\ arr_time = <<"0", "0", "0", "1">>
    /\ durOut.method = <<"0", "si", "gan", " ", "2", "bun">>

\* the parsed minutes of every train of schedule_data
ParsedMinutes == [i \in 1..Len(schedule_data) |-> parse_duration(schedule_data[i].duration)]

\* C8: find_fastest_route returns the first train, in list order, whose
\* parsed duration is the least of the strictly positive ones, and None when
\* no train has a positive parsed duration.
C8_FastestIsFirstMinimum ==
    routeOut.fn = "fastest" =>
        LET pos == {i \in 1..Len(schedule_data) : ParsedMinutes[i] > 0}
            r   == routeOut.index
        IN  IF pos = {} THEN r = 0
            ELSE /\ r \in pos
                 /\ \A j \in pos : ParsedMinutes[r] <= ParsedMinutes[j]
                 /\ \A j \in pos : ParsedMinutes[j] = ParsedMinutes[r] => r <= j

\* a 0-minute train first, then two trains with the same shortest duration
C8_Witness ==
    /\ routeOut.fn = "fastest"
    /\ Len(schedule_data) = 3
    /\ schedule_data[1].duration.k = "str"
    /\ ParsedMinutes[1] = 0
    /\ ParsedMinutes[2] > 0
    /\ ParsedMinutes[3] = ParsedMinutes[2]
    /\ routeOut.index = 2

\* the fare of every train of schedule_data, as int() reads it
ParsedFares == [i \in 1..Len(schedule_data) |-> charge_int(schedule_data[i].adult_charge)]

\* C9: find_cheapest_route returns the first train, in list order, whose
\* fare is the least of the strictly positive integer fares; with no such
\* fare, the first train of a non-empty list and None for an empty list.
C9_CheapestIsFirstMinimum ==
    routeOut.fn = "cheapest" =>
        LET pos == {i \in 1..Len(schedule_data) :
                       ParsedFares[i].ok /\ ParsedFares[i].val > 0}
            r   == routeOut.index
        IN  IF pos = {} THEN r = (IF schedule_data = <<>> THEN 0 ELSE 1)
            ELSE /\ r \in pos
                 /\ \A j \in pos : ParsedFares[r].val <= ParsedFares[j].val
                 /\ \A j \in pos : ParsedFares[j].val = ParsedFares[r].val => r <= j

\* a fare of None first, then two trains with the same lowest fare
C9_Witness ==
    /\ routeOut.fn = "cheapest"
    /\ Len(schedule_data) = 3
    /\ schedule_data[1].adult_charge.k = "none"
    /\ ParsedFares[2].ok
    /\ ParsedFares[2].val > 0
    /\ ParsedFares[3] = ParsedFares[2]
    /\ routeOut.index = 2

\* C10: the train count of a date panel's header equals the number of train
\* cards rendered in the panel (stated here for the lists the claim surely
\* covers: every record carries a departure time, an arrival time and a
\* train type, and the panel is rendered without an exception).
C10_HeaderCountEqualsCards ==
    /\ panelOut.called
    /\ ~panelOut.raised
    /\ \A i \in 1..Len(date_trains) : has_times(date_trains[i])
    => panelOut.header_count = Len(panelOut.cards)

(***************************************************************************)
(* Claims about hub.py and the shared meta.json (SpecHub)                  *)
(***************************************************************************)
\* the key of the one origin station of the input files
SeoulKey == base_filename(with_station(Seoul))

\* C12: a hub page that create_hub_page has written holds one route link per
\* entry of the input's "도착지" list, the i-th link leading to the i-th
\* entry, and the numberOfItems of its JSON-LD list is the length of the
\* list.
C12_HubLinksFollowDestinations ==
    LET h == hubHist.last
    IN  (h.op = "hub" /\ h.result = "True") =>
            LET d    == h.inp.destinations.v
                from == with_station(h.inp.from_station.s)
                page == hubFiles[KeyOf(h.inp)]
            IN  /\ page.exists
                /\ Len(page.links) = Len(d)
                /\ \A i \in 1..Len(d) :
                      /\ page.links[i].href = route_base(from, with_station(d[i]))
                      /\ page.item_urls[i] = page.links[i].href
                /\ page.numberOfItems = Len(d)
                /\ Len(page.item_urls) = Len(d)

\* a page was written for a list that names one destination twice
C12_Witness ==
    /\ hubHist.last.op = "hub"
    /\ hubHist.last.result = "True"
    /\ hubHist.last.inp.destinations.v = <<Busan, Busan, Daejeon>>
    /\ hubFiles[SeoulKey].numberOfItems = 3

C16_FalseRunKeepsMeta ==
    LET h == hubHist.last
    IN  (h.op = "hub" /\ h.result = "False") => metaFile = h.meta_before

\* the page write failed for an origin that has an entry, at a later time
\* than the entry's last build
C16_Witness ==
    /\ hubHist.last.op = "hub"
    /\ hubHist.last.result = "False"
    /\ ~input_rejected(hubHist.last.inp)
    /\ metaFile.hubs[SeoulKey].build_count = 1
    /\ metaFile.hubs[SeoulKey].modified_iso < now

DatesWithTrains ==
    {d \in 1..Len(run.all_date_data) : run.all_date_data[d] # <<>>}

\* C11: the page that a run has written has one tab button and one date
\* panel for every requested date that returned at least one train and for
\* no other date, both in the order of the calendar; the first tab and the
\* first panel, and only they, are active and visible; the aria-controls
\* of every tab is the id of exactly one panel.
C11_TabsAndPanelsFollowDates ==
    (run.pc = "done" /\ run.result = "True") =>
        LET tabs   == routeFile.tabs
            panels == routeFile.panels
        IN  /\ routeFile.exists
            /\ Len(tabs) = Cardinality(DatesWithTrains)
            /\ Len(panels) = Cardinality(DatesWithTrains)
            /\ {tabs[i].date : i \in 1..Len(tabs)} = DatesWithTrains
            /\ {panels[i].date : i \in 1..Len(panels)} = DatesWithTrains
            /\ \A i, j \in 1..Len(tabs) : i < j => tabs[i].date < tabs[j].date
            /\ \A i, j \in 1..Len(panels) : i < j => panels[i].date < panels[j].date
            /\ \A i \in 1..Len(tabs) : tabs[i].active <=> i = 1
            /\ \A i \in 1..Len(panels) :
                  /\ panels[i].active <=> i = 1
                  /\ panels[i].visible <=> i = 1
            /\ \A i \in 1..Len(tabs) :
                  Cardinality({j \in 1..Len(panels) :
                                 panels[j].id = tabs[i].aria_controls}) = 1

\* three dates were requested, the second came back empty, and the page
\* has the two tabs of the first and the third
C11_Witness ==
    /\ run.pc = "done"
    /\ run.result = "True"
    /\ run.days = 3
    /\ DatesWithTrains = {1, 3}
    /\ Len(routeFile.tabs) = 2
    /\ routeFile.panels[2].date = 3

\* C15: when the page write of a run fails, meta.json is what it was
\* before the run.
C15_FailedPageWriteKeepsMeta ==
    (run.pc = "done" /\ run.write_failed) => metaFile = run.meta_before

\* C19: a run in which no requested date returned a train that has both
\* times returns False, writes no page, leaves meta.json as it was and
\* divides by nothing; with max_days of 0 or less it also fetches nothing.
C19_NoUsableTrainMeansNoOutput ==
    LET usable == \E d \in 1..Len(run.all_date_data) :
                     \E n \in 1..Len(run.all_date_data[d]) :
                        /\ run.all_date_data[d][n].departure_time.k = "str"
                        /\ run.all_date_data[d][n].departure_time.s # <<>>
                        /\ run.all_date_data[d][n].arrival_time.k = "str"
                        /\ run.all_date_data[d][n].arrival_time.s # <<>>
    IN  /\ (run.pc = "done" /\ ~usable) =>
              /\ run.result = "False"
              /\ routeFile = NoRouteFile
              /\ metaFile = run.meta_before
              /\ ~run.divided
        /\ (run.pc = "done" /\ run.days <= 0) =>
              /\ run.result = "False"
              /\ run.fetched = <<>>
              /\ run.http_requests = 0

\* every date came back with trains, each lacking a time, and the page has
\* an entry in meta.json
C19_Witness ==
    /\ run.pc = "done"
    /\ run.days = 2
    /\ run.all_date_data = <<(<<RunNoDep, RunNoArr>>), (<<RunNoDep, RunNoArr>>)>>
    /\ run.result = "False"
    /\ metaFile.pages[RunPage].version = 1

\* C20: fetch_train_data is called once for each requested date and for
\* nothing else, in the order of the dates, and no call makes more than
\* one request, so the run makes at most max_days requests.
C20_OneFetchPerDate ==
    LET wanted == IF run.days > 0 THEN run.days ELSE 0
    IN  run.pc # "idle" =>
            /\ Len(run.fetched) <= wanted
            /\ \A i \in 1..Len(run.fetched) : run.fetched[i] = i
            /\ run.http_requests <= Len(run.fetched)
            /\ run.pc = "done" => Len(run.fetched) = wanted

\* a finished run of three dates that made three requests, one of them
\* failing
C20_Witness ==
    /\ run.pc = "done"
    /\ run.days = 3
    /\ Len(run.fetched) = 3
    /\ run.http_requests = 3
    /\ run.all_date_data[1] = <<>>
    /\ run.all_date_data[2] # <<>>

(***************************************************************************)
(* Claims about main, the figures of a route page and the hub links        *)
(***************************************************************************)
\* the counts returned by the stations that did not raise
RECURSIVE returned_sum(_)
returned_sum(results) ==
    IF results = <<>> THEN 0
    ELSE returned_sum(SubSeq(results, 1, Len(results) - 1))
         + (IF results[Len(results)].raised THEN 0
            ELSE results[Len(results)].returned)

\* C21: in main a station that has no ID, no usable destination file or
\* whose process_station raises never stops the run: once the loop has
\* begun the run gets to its end, a run that is over has handled every
\* station of selected_stations, and total_generated is at every moment the
\* sum of the counts returned by the stations that completed.
C21_MainLoopOutlastsFailures ==
    /\ [](main.pc \in {"done", "failed"}
            => Len(main.results) = Len(main.selected_stations))
    /\ [](main.total_generated = returned_sum(main.results))
    /\ ((main.pc = "loop") ~> (main.pc = "done"))

\* a run of two stations that is over, in which the first station raised
\* and the second one returned a count
C21_Witness ==
    /\ main.pc = "done"
    /\ Len(main.results) = 2
    /\ main.results[1].raised
    /\ ~main.results[2].raised
    /\ main.results[2].returned > 0
    /\ main.total_generated = main.results[2].returned

\* the rules of lines 645-652 in their order, for one traingradename
GroupRules(type) ==
    <<Contains(KTX, type), Contains(SRT, type),
      Contains(Saemaeul, type) \/ Contains(ITX, type) \/ Contains(Maeum, type),
      Contains(Mugunghwa, type)>>

\* the number of the first rule that matches a train with both times; 0 for
\* a train without a time or without a matching rule
FirstRule(train) ==
    LET rules == GroupRules(train.train_type.s)
    IN  IF has_times(train) /\ \E n \in 1..4 : rules[n]
        THEN CHOOSE n \in 1..4 : rules[n] /\ \A k \in 1..(n - 1) : ~rules[k]
        ELSE 0

\* the cards of the trains of date_trains whose first rule is n, in the
\* order of the answer
CardsOfRule(n) ==
    LET chosen(train) == FirstRule(train) = n
        kept == SelectSeq(date_trains, chosen)
    IN  [i \in 1..Len(kept) |-> train_info(kept[i])]

\* C22: in a rendered date panel every train with both times has its card
\* in the group of the first rule that matches its type, in the order KTX,
\* SRT, ITX (새마을, ITX or 마음), 무궁화, and in no other group; the high-speed
\* heading holds the KTX cards and then the SRT cards, the regular heading
\* the ITX cards and then the 무궁화 cards, each group in the order of the
\* API answer.
C22_GroupsByFirstRuleInOrder ==
    (panelOut.called /\ ~panelOut.raised)
        => /\ panelOut.high_speed = CardsOfRule(1) \o CardsOfRule(2)
           /\ panelOut.regular = CardsOfRule(3) \o CardsOfRule(4)
           /\ panelOut.cards = panelOut.high_speed \o panelOut.regular

\* a panel whose answer lists an SRT train before a KTX train, and a train
\* whose type matches the ITX rule and the 무궁화 rule
C22_Witness ==
    /\ panelOut.called /\ ~panelOut.raised
    /\ Len(date_trains) = 3
    /\ date_trains[1].train_type = Str(SRT)
    /\ date_trains[2].train_type = Str(KTX)
    /\ GroupRules(date_trains[3].train_type.s) = <<FALSE, FALSE, TRUE, TRUE>>
    /\ Len(panelOut.high_speed) = 2
    /\ panelOut.high_speed[1].type = KTX
    /\ panelOut.high_speed[2].type = SRT
    /\ Len(panelOut.regular) = 1
    /\ panelOut.regular[1].type = date_trains[3].train_type.s

\* C23: the daily average shown on a route page is the number of trains
\* of combined_trains divided by max_days, rounded to the nearest integer
\* (either neighbour for a tie), for every max_days of 1 or more.
C23_AverageIsTotalOverDays ==
    avgStat.computed
        => LET off == avgStat.avg_trains * avgStat.days - avgStat.total_trains
           IN  2 * (IF off < 0 THEN 0 - off ELSE off) <= avgStat.days

\* the minute of the day named by "오전/오후 H시 MM분"
IntroMinutes(text) ==
    LET si == CHOOSE n \in 1..Len(text) : text[n] = "si"
        hour == IntOfDigits(SubSeq(text, 4, si - 1))
        minute == IntOfDigits(SubSeq(text, si + 2, si + 3))
    IN  (IF text[2] = "hu" THEN (hour % 12) + 12 ELSE hour) * 60 + minute

\* the minute of the day named by "HH:MM"
StatMinutes(text) ==
    IntOfDigits(SubSeq(text, 1, 2)) * 60 + IntOfDigits(SubSeq(text, 4, 5))

\* C24: the first-train and last-train times named in the intro text of a
\* route page are the same times of day as the first-train and last-train
\* times of the summary statistics of that page.
C24_IntroTimesAreStatTimes ==
    firstLast.rendered
        => /\ firstLast.intro.named
           /\ IntroMinutes(firstLast.intro.first_time)
                 = StatMinutes(firstLast.stats.first_train)
           /\ IntroMinutes(firstLast.intro.last_time)
                 = StatMinutes(firstLast.stats.last_train)

\* C25: for every destination of a hub input file the href of its link on
\* the hub page is the file name generate_filename gives the route page of
\* the same origin and destination under the same use_html_extension.
C25_HrefIsRouteFileName ==
    hubLink.built
        => /\ Len(hubLink.hrefs) = Len(hubLink.destinations)
           /\ \A i \in 1..Len(hubLink.destinations) :
                 hubLink.hrefs[i] = hubLink.filenames[i]

\* C26: with overwrite_mode false the cleanup of main removes route pages
\* only: the hub pages of hub.py and meta.json that were in the output
\* folder are still there afterwards.
C26_CleanupKeepsHubPagesAndMeta ==
    (main.pc \in {"loop", "done"} /\ ~main.overwrite_mode)
        => \A f \in main.folder_before \cap (HubPages \cup {MetaJson}) : f \in folder

====
